---- MODULE Spec2Model ----
(***************************************************************************)
(* Model of the metadata parsing core of fractal-uzh-converters.            *)
(*                                                                         *)
(*   SpecAcq   the cross-acquisition driver parse_acquisitions             *)
(*             (common/utils.py) running a vendor parser                   *)
(*             (parse_cq3k_metadata, parse_operetta_metadata,              *)
(*             parse_scanr_metadata) over a list of acquisitions;          *)
(*   SpecCond  the condition-table attribute resolver                      *)
(*             get_attributes_from_condition_table (common/utils.py).      *)
(*                                                                         *)
(* Strings whose characters matter (table headers, table cells, the        *)
(* queried row) are sequences of one-character strings, so that lower()    *)
(* and strip() are computed and not assumed.                               *)
(***************************************************************************)
EXTENDS Integers, Sequences, FiniteSets, TLC

VARIABLES
    \* ---- parse_acquisitions -------------------------------------------
    parse_function,   \* the vendor parser handed to parse_acquisitions
    acquisitions,     \* the list of acquisition models
    pc,               \* position inside parse_acquisitions
    idx,              \* 1-based position of `acq` in the for loop
    tiled_images,     \* the accumulator list
    events,           \* calls, returns and raises of parse_function, in order
    warnings,         \* paths for which "No images found in ..." was logged
    error,            \* the exception that left parse_acquisitions, or NoError
    \* ---- get_attributes_from_condition_table ---------------------------
    condition_table,  \* the DataFrame (columns, rows) or None
    q_row,            \* argument row
    q_column,         \* argument column
    q_acquisition,    \* argument acquisition
    ct_pc,            \* "start" before the call, "done" after it
    ct_result,        \* what the call produced: error, selected rows, mapping
    \* ---- the path of an acquisition model ------------------------------
    p_vendor,         \* the vendor whose acquisition model is built
    p_raw,            \* the path the user gave
    p_path,           \* the model's path field
    p_metadata,       \* the paths of the metadata files the parser opens
    p_pc,             \* "raw", "validated", "located"
    \* ---- one vendor parser at work on one acquisition ------------------
    t_vendor,         \* which parser runs
    t_acq,            \* the acquisition model: id, condition table, advanced
    t_source,         \* what the metadata files under the path hold
    t_pc,             \* position inside the parser
    t_meta,           \* the loaded metadata
    t_mean_z,         \* ScanR: mean_z_spacing of the acquisition
    t_groups,         \* plates_groups (ScanR: meta.images), in dict order
    t_gi,             \* 1-based position of the group being built
    t_attrs,          \* the attributes resolved for the group at t_gi
    t_tiles,          \* all_tiles
    t_log,            \* the steps taken so far, in order
    t_warnings,       \* warnings logged so far
    t_error,          \* the exception that left the parser, or NoError
    t_result          \* the list the parser returned

acqVars  == <<parse_function, acquisitions, pc, idx, tiled_images, events,
              warnings, error>>
condVars == <<condition_table, q_row, q_column, q_acquisition, ct_pc, ct_result>>
pathVars == <<p_vendor, p_raw, p_path, p_metadata, p_pc>>
tileVars == <<t_vendor, t_acq, t_source, t_pc, t_meta, t_mean_z, t_groups, t_gi,
              t_attrs, t_tiles, t_log, t_warnings, t_error, t_result>>
vars     == <<parse_function, acquisitions, pc, idx, tiled_images, events,
              warnings, error,
              condition_table, q_row, q_column, q_acquisition, ct_pc, ct_result,
              p_vendor, p_raw, p_path, p_metadata, p_pc,
              t_vendor, t_acq, t_source, t_pc, t_meta, t_mean_z, t_groups, t_gi,
              t_attrs, t_tiles, t_log, t_warnings, t_error, t_result>>
notAcqVars  == <<condVars, pathVars, tileVars>>
notCondVars == <<acqVars, pathVars, tileVars>>
notPathVars == <<acqVars, condVars, tileVars>>
notTileVars == <<acqVars, condVars, pathVars>>

(***************************************************************************)
(* Bounds                                                                  *)
(***************************************************************************)
MaxAcq == 3
MaxRows == 2
MaxSlashes == 2
MaxRecords == 3

(***************************************************************************)
(* Generic helpers                                                         *)
(***************************************************************************)
Range(s) == {s[i] : i \in DOMAIN s}

RECURSIVE FirstIndex(_, _, _)
\* list.index(x): the 1-based position of the first element equal to x
\* at or after position i, 0 when there is none.
FirstIndex(s, x, i) ==
    IF i > Len(s) THEN 0
    ELSE IF s[i] = x THEN i
    ELSE FirstIndex(s, x, i + 1)

NoError == "none"

(***************************************************************************)
(* Strings as character sequences                                          *)
(***************************************************************************)
STANDARD_ROWS_NAMES ==
    <<"A", "B", "C", "D", "E", "F", "G", "H", "I", "J", "K", "L", "M",
      "N", "O", "P", "Q", "R", "S", "T", "U", "V", "W", "X", "Y", "Z">>

LowerCaseLetters ==
    <<"a", "b", "c", "d", "e", "f", "g", "h", "i", "j", "k", "l", "m",
      "n", "o", "p", "q", "r", "s", "t", "u", "v", "w", "x", "y", "z">>

Whitespace == {" ", "\t", "\n", "\r"}

\* str.lower() of one character
char_lower(c) ==
    IF \E i \in DOMAIN STANDARD_ROWS_NAMES : STANDARD_ROWS_NAMES[i] = c
    THEN LowerCaseLetters[CHOOSE i \in DOMAIN STANDARD_ROWS_NAMES :
                              STANDARD_ROWS_NAMES[i] = c]
    ELSE c

\* a and b are the same string up to the case of their letters
SameLetters(a, b) ==
    /\ Len(a) = Len(b)
    /\ \A i \in DOMAIN a :
          \/ a[i] = b[i]
          \/ \E k \in DOMAIN STANDARD_ROWS_NAMES :
                 {a[i], b[i]} = {STANDARD_ROWS_NAMES[k], LowerCaseLetters[k]}

str_lower_Identity(s) == s

\* str.lower()
str_lower(s) == [i \in DOMAIN s |-> char_lower(s[i])]

RECURSIVE lstrip(_)
lstrip(s) ==
    IF s # <<>> /\ Head(s) \in Whitespace THEN lstrip(Tail(s)) ELSE s

RECURSIVE rstrip(_)
rstrip(s) ==
    IF s # <<>> /\ s[Len(s)] \in Whitespace
    THEN rstrip(SubSeq(s, 1, Len(s) - 1))
    ELSE s

\* str.strip()
strip(s) == rstrip(lstrip(s))

S_row == <<"r", "o", "w">>
S_Row == <<"R", "o", "w">>
S_ROW == <<"R", "O", "W">>
S_column == <<"c", "o", "l", "u", "m", "n">>
S_Column == <<"C", "o", "l", "u", "m", "n">>
S_col == <<"c", "o", "l">>
S_COL == <<"C", "O", "L">>
S_acquisition == <<"a", "c", "q", "u", "i", "s", "i", "t", "i", "o", "n">>
S_Acquisition == <<"A", "c", "q", "u", "i", "s", "i", "t", "i", "o", "n">>
S_drug == <<"d", "r", "u", "g">>
S_dose == <<"d", "o", "s", "e">>
S_mix == <<"m", "i", "x">>

(***************************************************************************)
(* Condition tables                                                        *)
(***************************************************************************)
\* table cells, with their Python type
StrCell(s) == [t |-> "str", v |-> s]
IntCell(n) == [t |-> "int", v |-> n]
BoolCell(b) == [t |-> "bool", v |-> b]
None    == [t |-> "NoneType", v |-> 0]

NoTable == [is_none |-> TRUE, columns |-> <<>>, rows |-> <<>>]
DataFrame(cols, rws) == [is_none |-> FALSE, columns |-> cols, rows |-> rws]

ColumnValues_FirstRowOnly(columns, rws, name) ==
    LET c == FirstIndex(columns, name, 1)
    IN  [i \in 1..(IF rws = <<>> THEN 0 ELSE 1) |-> rws[i][c]]

\* column `name` of a frame as a list (DataFrame.to_dict(as_series=False)[name])
ColumnValues(columns, rws, name) ==
    LET c == FirstIndex(columns, name, 1)
    IN  [i \in 1..Len(rws) |-> rws[i][c]]

RowMissingError == "Condition table must contain a 'row' column."
ColumnMissingError == "Condition table must contain a 'column' or 'col' column."
MixedTypesError == "Condition table column must contain either all strings, bools, or all numbers"

CtReturn(flt, attrs) ==
    [err |-> NoError, err_column |-> <<>>, err_types |-> {},
     filtered |-> flt, attributes |-> attrs]
CtRaise(msg, key, types, flt) ==
    [err |-> msg, err_column |-> key, err_types |-> types,
     filtered |-> flt, attributes |-> <<>>]

\* polars `col == literal`: a null cell compares to null and is filtered out
CellEquals(cell, lit) == cell.t = lit.t /\ cell.v = lit.v

FilterRowColumn_CaseInsensitive(columns, rws, row_col_name, column_col_name, row, column) ==
    LET r == FirstIndex(columns, row_col_name, 1)
        c == FirstIndex(columns, column_col_name, 1)
    IN  SelectSeq(rws, LAMBDA x :
            /\ x[r].t = "str"
            /\ str_lower(x[r].v) = str_lower(row)
            /\ CellEquals(x[c], IntCell(column)))

\* lines 140-142
FilterRowColumn(columns, rws, row_col_name, column_col_name, row, column) ==
    LET r == FirstIndex(columns, row_col_name, 1)
        c == FirstIndex(columns, column_col_name, 1)
    IN  SelectSeq(rws, LAMBDA x :
            CellEquals(x[r], StrCell(row)) /\ CellEquals(x[c], IntCell(column)))

FilterAcquisition_Ignored(columns, columns_lower, rws, acquisition) == rws

\* lines 143-145
FilterAcquisition(columns, columns_lower, rws, acquisition) ==
    IF S_acquisition \in Range(columns_lower)
    THEN LET acquisition_col_name ==
                 columns[FirstIndex(columns_lower, S_acquisition, 1)]
             a == FirstIndex(columns, acquisition_col_name, 1)
         IN  SelectSeq(rws, LAMBDA x : CellEquals(x[a], IntCell(acquisition)))
    ELSE rws

Placeholders == {<<>>, <<"N", "a">>, <<"N", "A">>, <<"N", "/", "A">>}

FormatStrings_PlaceholderBeforeStrip(value) ==
    [i \in DOMAIN value |->
        IF value[i].t = "NoneType" THEN None
        ELSE IF value[i].v \in Placeholders THEN None
        ELSE StrCell(strip(value[i].v))]

\* lines 158-162
FormatStrings(value) ==
    LET formatted_value ==
            [i \in DOMAIN value |->
                IF value[i].t = "NoneType" THEN None ELSE StrCell(strip(value[i].v))]
    IN  [i \in DOMAIN value |->
            IF formatted_value[i].t = "str" /\ formatted_value[i].v \in Placeholders
            THEN None
            ELSE formatted_value[i]]

AllStrOrNone(value) == \A i \in DOMAIN value : value[i].t \in {"str", "NoneType"}
AllNumOrNone_NoBool(value) ==
    \A i \in DOMAIN value : value[i].t \in {"int", "float", "NoneType"}

\* line 164
AllNumOrNone(value) ==
    \A i \in DOMAIN value : value[i].t \in {"int", "float", "bool", "NoneType"}

\* line 155
ExcludedKeys == {S_row, S_column, S_acquisition}

RECURSIVE BuildAttributes(_, _, _, _)
\* lines 153-173: the loop over filtered_dict.items(), from column k on
BuildAttributes(columns, flt, k, attrs) ==
    IF k > Len(columns) THEN CtReturn(flt, attrs)
    ELSE LET key   == columns[k]
             value == ColumnValues(columns, flt, key)
         IN  IF key \in ExcludedKeys
             THEN BuildAttributes(columns, flt, k + 1, attrs)
             ELSE IF AllStrOrNone(value)
             THEN BuildAttributes(columns, flt, k + 1,
                      [x \in DOMAIN attrs \cup {key} |->
                          IF x = key THEN FormatStrings(value) ELSE attrs[x]])
             ELSE IF AllNumOrNone(value)
             THEN BuildAttributes(columns, flt, k + 1,
                      [x \in DOMAIN attrs \cup {key} |->
                          IF x = key THEN value ELSE attrs[x]])
             ELSE CtRaise(MixedTypesError, key,
                          {value[i].t : i \in DOMAIN value}, flt)

ColumnColName_FirstFound(columns, columns_lower) ==
    LET first == CHOOSE i \in DOMAIN columns :
                     /\ columns_lower[i] \in {S_column, S_col}
                     /\ \A j \in 1..(i - 1) : columns_lower[j] \notin {S_column, S_col}
    IN  columns[first]

\* lines 133-136: 'column' is looked for first, 'col' only without it
ColumnColName(columns, columns_lower) ==
    IF S_column \in Range(columns_lower)
    THEN columns[FirstIndex(columns_lower, S_column, 1)]
    ELSE columns[FirstIndex(columns_lower, S_col, 1)]

\* lines 118-173
get_attributes_from_condition_table(table, row, column, acquisition) ==
    IF table.is_none THEN CtReturn(<<>>, <<>>)
    ELSE
    LET columns == table.columns
        columns_lower == [i \in DOMAIN columns |-> str_lower(columns[i])]
    IN  IF S_row \notin Range(columns_lower)
        THEN CtRaise(RowMissingError, S_row, {}, <<>>)
        ELSE IF S_column \notin Range(columns_lower)
                /\ S_col \notin Range(columns_lower)
        THEN CtRaise(ColumnMissingError, S_column, {}, <<>>)
        ELSE
        LET row_col_name == columns[FirstIndex(columns_lower, S_row, 1)]
            column_col_name == ColumnColName(columns, columns_lower)
            filtered ==
                FilterAcquisition(columns, columns_lower,
                    FilterRowColumn(columns, table.rows, row_col_name,
                                    column_col_name, row, column),
                    acquisition)
        IN  IF filtered = <<>> THEN CtReturn(<<>>, <<>>)
            ELSE BuildAttributes(columns, filtered, 1, <<>>)

(***************************************************************************)
(* The calls of get_attributes_from_condition_table that are explored      *)
(***************************************************************************)
Layouts ==
    { <<S_row, S_column, S_drug>>,
      <<S_Row, S_Column, S_dose>>,
      <<S_ROW, S_COL, S_dose>>,
      <<S_row, S_col, S_acquisition, S_dose>>,
      <<S_Row, S_column, S_Acquisition, S_dose>>,
      <<S_column, S_dose>>,
      <<S_row, S_dose>>,
      <<S_dose>>,
      <<S_row, S_col, S_column, S_dose>>,
      <<S_row, S_column, S_col, S_dose>>,
      <<S_row, S_column, S_mix>> }

RowNames == {<<"A">>, <<"a">>}
ColumnNumbers == {1, 2}
AcquisitionIds == {0, 1}

\* the cells a column can hold, by its header
CellsOf(h) ==
    IF SameLetters(h, S_row) THEN {StrCell(r) : r \in RowNames}
    ELSE IF SameLetters(h, S_column) \/ SameLetters(h, S_col)
    THEN {IntCell(c) : c \in ColumnNumbers}
    ELSE IF SameLetters(h, S_acquisition)
    THEN {IntCell(a) : a \in AcquisitionIds}
    ELSE IF h = S_drug
    THEN {None, StrCell(<<>>), StrCell(<<"N", "A">>),
          StrCell(<<" ", "N", "A", " ">>), StrCell(<<"N", "a">>),
          StrCell(<<"N", "/", "A">>), StrCell(<<"n", "a">>),
          StrCell(<<" ", "x", "\t">>)}
    ELSE IF h = S_dose THEN {IntCell(1), IntCell(2)}
    ELSE {StrCell(<<"x">>), IntCell(1), BoolCell(TRUE), None}

TableRows(columns) ==
    {r \in [1..Len(columns) -> UNION {CellsOf(columns[i]) : i \in DOMAIN columns}] :
        \A i \in DOMAIN columns : r[i] \in CellsOf(columns[i])}


(***************************************************************************)
(* Vendor metadata as the loaders deliver it                               *)
(***************************************************************************)
Vendors == {"cq3k", "operetta", "scanr"}

ImgRecord(r, c, f) == [type |-> "IMG", row |-> r, column |-> c, field |-> f]
ErrRecord == [type |-> "ERR", row |-> 1, column |-> 1, field |-> 1]

\* The record lists a metadata file can hold.  ERR records exist in the
\* CQ3K format only (ErrorMeasurementRecord).
ImageOnlyRecordLists ==
    { <<>>,
      <<ImgRecord(1, 1, 1)>>,
      <<ImgRecord(1, 1, 1), ImgRecord(1, 1, 1)>>,
      <<ImgRecord(1, 1, 1), ImgRecord(1, 2, 1)>> }

CQ3KRecordLists ==
    ImageOnlyRecordLists \cup
    { <<ErrRecord>>, <<ErrRecord, ImgRecord(1, 1, 1)>> }

RecordLists(vendor) ==
    IF vendor = "cq3k" THEN CQ3KRecordLists ELSE ImageOnlyRecordLists

\* An acquisition model together with the metadata found under its path.
AcquisitionModels(vendor, p) ==
    [path : {p}, acquisition_id : {0}, readable : BOOLEAN,
     records : RecordLists(vendor)]

(***************************************************************************)
(* Vendor parsers                                                          *)
(***************************************************************************)
RECURSIVE GroupKeys(_, _)
\* plates_groups keys in first-seen (dict insertion) order, from position i.
GroupKeys(images, seen) ==
    IF images = <<>> THEN seen
    ELSE LET r   == Head(images)
             key == <<r.row, r.column, r.field>>
         IN  GroupKeys(Tail(images),
                       IF key \in Range(seen) THEN seen ELSE Append(seen, key))

ImageRecords(records) == SelectSeq(records, LAMBDA r : r.type = "IMG")

GroupOf(images, key) ==
    SelectSeq(images, LAMBDA r : <<r.row, r.column, r.field>> = key)

\* _build_tiles: one Tile per record of the group.
_build_tiles(acq, images, key) ==
    [i \in 1..Len(images) |->
        [path |-> acq.path, row |-> key[1], column |-> key[2], fov |-> key[3]]]

RECURSIVE AllTiles(_, _, _)
AllTiles(acq, images, keys) ==
    IF keys = <<>> THEN <<>>
    ELSE _build_tiles(acq, GroupOf(images, Head(keys)), Head(keys))
         \o AllTiles(acq, images, Tail(keys))

RECURSIVE TileKeys(_, _)
TileKeys(tiles, seen) ==
    IF tiles = <<>> THEN seen
    ELSE LET t   == Head(tiles)
             key == <<t.path, t.row, t.column, t.fov>>
         IN  TileKeys(Tail(tiles),
                      IF key \in Range(seen) THEN seen ELSE Append(seen, key))

\* tiles_aggregation_pipeline (ome_zarr_converters_tools), as far as this
\* core relies on it: the tiles of one field of view of one well become one
\* TiledImage; no tiles, no images.
tiles_aggregation_pipeline(tiles) ==
    LET keys == TileKeys(tiles, <<>>)
    IN  [i \in 1..Len(keys) |->
            [path |-> keys[i][1], row |-> keys[i][2], column |-> keys[i][3],
             fov |-> keys[i][4],
             n_tiles |-> Len(SelectSeq(tiles,
                 LAMBDA t : <<t.path, t.row, t.column, t.fov>> = keys[i]))]]

Raised(msg) == [ok |-> FALSE, err |-> msg, images |-> <<>>]
Returned(imgs) == [ok |-> TRUE, err |-> NoError, images |-> imgs]

LoadError == "metadata file missing or malformed"
NoRecordsError == "No measurement records found"
NoImagesInFileError == "No images found in metadata file"

\* The part the CQ3K and Operetta parsers share after the emptiness check:
\* group, build the tiles of every group, aggregate.
GroupBuildAggregate(acq, images) ==
    Returned(tiles_aggregation_pipeline(
                 AllTiles(acq, images, GroupKeys(images, <<>>))))

parse_cq3k_metadata(acq) ==
    IF ~acq.readable THEN Raised(LoadError)
    ELSE IF acq.records = <<>> THEN Raised(NoRecordsError)
    ELSE GroupBuildAggregate(acq, ImageRecords(acq.records))

parse_operetta_metadata_NoEmptyCheck(acq) ==
    IF ~acq.readable THEN Raised(LoadError)
    ELSE GroupBuildAggregate(acq, acq.records)

parse_operetta_metadata(acq) ==
    IF ~acq.readable THEN Raised(LoadError)
    ELSE IF Len(acq.records) = 0 THEN Raised(NoRecordsError)
    ELSE GroupBuildAggregate(acq, acq.records)

parse_scanr_metadata(acq) ==
    IF ~acq.readable THEN Raised(LoadError)
    ELSE IF Len(acq.records) = 0 THEN Raised(NoImagesInFileError)
    ELSE GroupBuildAggregate(acq, acq.records)

Parse(vendor, acq) ==
    CASE vendor = "cq3k"     -> parse_cq3k_metadata(acq)
      [] vendor = "operetta" -> parse_operetta_metadata(acq)
      [] vendor = "scanr"    -> parse_scanr_metadata(acq)

(***************************************************************************)
(* parse_acquisitions                                                      *)
(***************************************************************************)
EmptyListError == "Acquisitions list is empty."
NoImagesError == "No images found in any of the provided acquisitions."

AcqIdle ==
    /\ parse_function = "cq3k"
    /\ acquisitions = <<>>
    /\ pc = "idle"
    /\ idx = 0
    /\ tiled_images = <<>>
    /\ events = <<>>
    /\ warnings = <<>>
    /\ error = NoError

CondIdle ==
    /\ condition_table = NoTable
    /\ q_row = <<>>
    /\ q_column = 0
    /\ q_acquisition = 0
    /\ ct_pc = "idle"
    /\ ct_result = CtReturn(<<>>, <<>>)

PathIdle ==
    /\ p_vendor = "cq3k"
    /\ p_raw = <<>>
    /\ p_path = <<>>
    /\ p_metadata = <<>>
    /\ p_pc = "idle"

TileIdle ==
    /\ t_vendor = "cq3k"
    /\ t_acq = <<>>
    /\ t_source = <<>>
    /\ t_pc = "idle"
    /\ t_meta = <<>>
    /\ t_mean_z = <<>>
    /\ t_groups = <<>>
    /\ t_gi = 0
    /\ t_attrs = <<>>
    /\ t_tiles = <<>>
    /\ t_log = <<>>
    /\ t_warnings = <<>>
    /\ t_error = NoError
    /\ t_result = <<>>

InitAcq ==
    /\ parse_function \in Vendors
    /\ \E n \in 0..MaxAcq :
          acquisitions \in
              {a \in [1..n -> UNION {AcquisitionModels(parse_function, p) : p \in 1..n}] :
                  \A i \in 1..n : a[i].path = i}
    /\ pc = "start"
    /\ idx = 0
    /\ tiled_images = <<>>
    /\ events = <<>>
    /\ warnings = <<>>
    /\ error = NoError
    /\ CondIdle
    /\ PathIdle
    /\ TileIdle

CheckAcquisitions_NoCheck ==
    /\ pc = "start"
    /\ pc' = "loop"
    /\ idx' = 1
    /\ tiled_images' = <<>>
    /\ UNCHANGED <<parse_function, acquisitions, events, warnings, error>>
    /\ UNCHANGED notAcqVars

\* lines 94-98: the emptiness check and the empty accumulator
CheckAcquisitions ==
    /\ pc = "start"
    /\ IF acquisitions = <<>>
       THEN /\ pc' = "raised"
            /\ error' = EmptyListError
            /\ UNCHANGED <<idx, tiled_images>>
       ELSE /\ pc' = "loop"
            /\ idx' = 1
            /\ tiled_images' = <<>>
            /\ UNCHANGED error
    /\ UNCHANGED <<parse_function, acquisitions, events, warnings>>
    /\ UNCHANGED notAcqVars

\* line 100: parse_function is entered for the next acquisition
CallParser ==
    /\ pc = "loop"
    /\ idx <= Len(acquisitions)
    /\ events' = Append(events, [ev |-> "call", i |-> idx, images |-> <<>>])
    /\ pc' = "parsing"
    /\ UNCHANGED <<parse_function, acquisitions, idx, tiled_images, warnings, error>>
    /\ UNCHANGED notAcqVars

ParserReturns_Retry ==
    /\ pc = "parsing"
    /\ LET res == Parse(parse_function, acquisitions[idx])
       IN  /\ res.ok
           /\ events' = Append(events,
                  [ev |-> "return", i |-> idx, images |-> res.images])
           /\ IF res.images = <<>>
              THEN /\ warnings' = Append(warnings, acquisitions[idx].path)
                   /\ UNCHANGED <<tiled_images, idx>>
              ELSE /\ tiled_images' = tiled_images \o res.images
                   /\ idx' = idx + 1
                   /\ UNCHANGED warnings
    /\ pc' = "loop"
    /\ UNCHANGED <<parse_function, acquisitions, error>>
    /\ UNCHANGED notAcqVars

ParserReturns_Overwrite ==
    /\ pc = "parsing"
    /\ LET res == Parse(parse_function, acquisitions[idx])
       IN  /\ res.ok
           /\ events' = Append(events,
                  [ev |-> "return", i |-> idx, images |-> res.images])
           /\ IF res.images = <<>>
              THEN /\ warnings' = Append(warnings, acquisitions[idx].path)
                   /\ UNCHANGED tiled_images
              ELSE /\ tiled_images' = res.images
                   /\ UNCHANGED warnings
    /\ idx' = idx + 1
    /\ pc' = "loop"
    /\ UNCHANGED <<parse_function, acquisitions, error>>
    /\ UNCHANGED notAcqVars

\* lines 100-110: parse_function returned; an empty result is logged and
\* skipped, any other result extends the accumulator
ParserReturns ==
    /\ pc = "parsing"
    /\ LET res == Parse(parse_function, acquisitions[idx])
       IN  /\ res.ok
           /\ events' = Append(events,
                  [ev |-> "return", i |-> idx, images |-> res.images])
           /\ IF res.images = <<>>
              THEN /\ warnings' = Append(warnings, acquisitions[idx].path)
                   /\ UNCHANGED tiled_images
              ELSE /\ tiled_images' = tiled_images \o res.images
                   /\ UNCHANGED warnings
    /\ idx' = idx + 1
    /\ pc' = "loop"
    /\ UNCHANGED <<parse_function, acquisitions, error>>
    /\ UNCHANGED notAcqVars

ParserRaises_Swallowed ==
    /\ pc = "parsing"
    /\ LET res == Parse(parse_function, acquisitions[idx])
       IN  /\ ~res.ok
           /\ events' = Append(events,
                  [ev |-> "raise", i |-> idx, images |-> <<>>])
    /\ idx' = idx + 1
    /\ pc' = "loop"
    /\ UNCHANGED <<parse_function, acquisitions, tiled_images, warnings, error>>
    /\ UNCHANGED notAcqVars

\* line 100: parse_function raised; parse_acquisitions has no handler, the
\* exception leaves the loop and the function
ParserRaises ==
    /\ pc = "parsing"
    /\ LET res == Parse(parse_function, acquisitions[idx])
       IN  /\ ~res.ok
           /\ events' = Append(events,
                  [ev |-> "raise", i |-> idx, images |-> <<>>])
           /\ error' = res.err
    /\ pc' = "raised"
    /\ UNCHANGED <<parse_function, acquisitions, idx, tiled_images, warnings>>
    /\ UNCHANGED notAcqVars

\* lines 112-115: after the loop
Finish ==
    /\ pc = "loop"
    /\ idx > Len(acquisitions)
    /\ IF Len(tiled_images) = 0
       THEN /\ pc' = "raised"
            /\ error' = NoImagesError
       ELSE /\ pc' = "done"
            /\ UNCHANGED error
    /\ UNCHANGED <<parse_function, acquisitions, idx, tiled_images, events, warnings>>
    /\ UNCHANGED notAcqVars

NextAcq ==
    \/ CheckAcquisitions
    \/ CallParser
    \/ ParserReturns
    \/ ParserRaises
    \/ Finish

SpecAcq == InitAcq /\ [][NextAcq]_vars

(***************************************************************************)
(* The call of get_attributes_from_condition_table                         *)
(***************************************************************************)
InitCond ==
    /\ \/ condition_table = NoTable
       \/ \E l \in Layouts : \E n \in 0..MaxRows : \E rws \in [1..n -> TableRows(l)] :
              condition_table = DataFrame(l, rws)
    /\ q_row \in RowNames
    /\ q_column \in {1}
    /\ q_acquisition \in AcquisitionIds
    /\ ct_pc = "start"
    /\ ct_result = CtReturn(<<>>, <<>>)
    /\ AcqIdle
    /\ PathIdle
    /\ TileIdle

\* one call of get_attributes_from_condition_table
GetAttributes ==
    /\ ct_pc = "start"
    /\ ct_result' = get_attributes_from_condition_table(
                        condition_table, q_row, q_column, q_acquisition)
    /\ ct_pc' = "done"
    /\ UNCHANGED <<condition_table, q_row, q_column, q_acquisition>>
    /\ UNCHANGED notCondVars

NextCond == GetAttributes

SpecCond == InitCond /\ [][NextCond]_vars

(***************************************************************************)
(* Acquisition paths: the field validators and the metadata lookup         *)
(***************************************************************************)
S_slash == <<"/">>
S_data == <<"d", "a", "t", "a">>
S_Images == <<"I", "m", "a", "g", "e", "s">>
S_metadata_ome_xml ==
    <<"m", "e", "t", "a", "d", "a", "t", "a", ".", "o", "m", "e", ".", "x", "m", "l">>
S_Index_idx_xml ==
    <<"I", "n", "d", "e", "x", ".", "i", "d", "x", ".", "x", "m", "l">>
S_MeasurementData_mlf ==
    <<"M", "e", "a", "s", "u", "r", "e", "m", "e", "n", "t",
      "D", "a", "t", "a", ".", "m", "l", "f">>
S_MeasurementDetail_mrf ==
    <<"M", "e", "a", "s", "u", "r", "e", "m", "e", "n", "t",
      "D", "e", "t", "a", "i", "l", ".", "m", "r", "f">>

\* str.rstrip("/")
RECURSIVE rstrip_slash(_)
rstrip_slash(v) ==
    IF v # <<>> /\ v[Len(v)] = "/"
    THEN rstrip_slash(SubSeq(v, 1, Len(v) - 1))
    ELSE v

\* str.endswith(suffix)
endswith(v, suffix) ==
    /\ Len(v) >= Len(suffix)
    /\ SubSeq(v, Len(v) - Len(suffix) + 1, Len(v)) = suffix

\* v[: -len(suffix)]
DropLast(v, n) == SubSeq(v, 1, Len(v) - n)

scanr_validate_path_SuffixFirst(v) ==
    IF endswith(v, S_slash \o S_data)
    THEN rstrip_slash(DropLast(v, Len(S_slash \o S_data)))
    ELSE rstrip_slash(v)

\* olympus_scanr/utils.py lines 71-82
scanr_validate_path(v) ==
    LET w == rstrip_slash(v)
    IN  IF endswith(w, S_slash \o S_data)
        THEN DropLast(w, Len(S_slash \o S_data))
        ELSE w

\* operetta/utils.py lines 43-54
operetta_validate_path(v) ==
    LET w == rstrip_slash(v)
    IN  IF endswith(w, S_slash \o S_Images)
        THEN DropLast(w, Len(S_slash \o S_Images))
        ELSE w

\* the path field after model validation; the CQ3K model has no validator
validate_path(vendor, v) ==
    CASE vendor = "scanr"    -> scanr_validate_path(v)
      [] vendor = "operetta" -> operetta_validate_path(v)
      [] OTHER               -> v

\* join_url_paths(base, *parts): the parts follow the base, "/" between them
RECURSIVE join_url_paths(_, _)
join_url_paths(base, parts) ==
    IF parts = <<>> THEN base
    ELSE join_url_paths(base \o S_slash \o Head(parts), Tail(parts))

\* the metadata files each parser opens under the model's path
metadata_paths(vendor, path) ==
    CASE vendor = "scanr" ->
             <<join_url_paths(path, <<S_data, S_metadata_ome_xml>>)>>
      [] vendor = "operetta" ->
             <<join_url_paths(path, <<S_Images, S_Index_idx_xml>>)>>
      [] OTHER ->
             <<join_url_paths(path, <<S_MeasurementData_mlf>>),
               join_url_paths(path, <<S_MeasurementDetail_mrf>>)>>

PathStems ==
    {<<>>, <<"p">>, <<"/", "p">>, <<"p", "/", "q">>, <<"p", "/">>,
     <<"p">> \o S_slash \o S_data, <<"p">> \o S_slash \o S_Images}

PathLeaves ==
    {<<>>, S_slash \o S_data, S_slash \o S_Images, S_data, S_Images,
     <<"x">> \o S_data, S_slash \o <<"D", "a", "t", "a">>,
     S_slash \o S_data \o <<"x">>, S_slash \o S_slash \o S_data}

RECURSIVE Slashes(_)
Slashes(n) == IF n = 0 THEN <<>> ELSE S_slash \o Slashes(n - 1)

RawPaths == {st \o lf \o Slashes(n) : st \in PathStems, lf \in PathLeaves,
                                      n \in 0..MaxSlashes}

InitPath ==
    /\ p_vendor \in Vendors
    /\ p_raw \in RawPaths
    /\ p_path = <<>>
    /\ p_metadata = <<>>
    /\ p_pc = "raw"
    /\ AcqIdle
    /\ CondIdle
    /\ TileIdle

\* pydantic builds the acquisition model: the "before" validator of `path`
ValidatePath ==
    /\ p_pc = "raw"
    /\ p_path' = validate_path(p_vendor, p_raw)
    /\ p_pc' = "validated"
    /\ UNCHANGED <<p_vendor, p_raw, p_metadata>>
    /\ UNCHANGED notPathVars

\* the parser derives the metadata file paths from the model's path
LocateMetadata ==
    /\ p_pc = "validated"
    /\ p_metadata' = metadata_paths(p_vendor, p_path)
    /\ p_pc' = "located"
    /\ UNCHANGED <<p_vendor, p_raw, p_path>>
    /\ UNCHANGED notPathVars

NextPath == ValidatePath \/ LocateMetadata

SpecPath == InitPath /\ [][NextPath]_vars

(***************************************************************************)
(* Numbers: stage positions are integers (micrometres), means are          *)
(* fractions                                                               *)
(***************************************************************************)
Abs(x) == IF x < 0 THEN -x ELSE x

Frac(n, d) == [num |-> n, den |-> d]

RECURSIVE Sum(_)
Sum(seq) == IF seq = <<>> THEN 0 ELSE Head(seq) + Sum(Tail(seq))

\* np.mean
Mean(seq) == Frac(Sum(seq), Len(seq))

\* np.diff
Diff(seq) == [i \in 1..(Len(seq) - 1) |-> seq[i + 1] - seq[i]]

\* np.allclose(a, b): |a - b| <= atol + rtol * |b| with rtol = 1e-5 and
\* atol = 1e-8; on integers this is 100000 * |a - b| <= |b|
allclose(a, b) == \A i \in DOMAIN a : Abs(a[i] - b) <= Abs(b) \div 100000

\* sorted(set)
RECURSIVE Sorted(_)
Sorted(S) ==
    IF S = {} THEN <<>>
    ELSE LET m == CHOOSE x \in S : \A y \in S : x <= y
         IN  <<m>> \o Sorted(S \ {m})

\* seq[i] with a Python index: 0-based, negative indices count from the end
PyIndexOk(seq, i) == -Len(seq) <= i /\ i < Len(seq)
PyIndex(seq, i) == IF i >= 0 THEN seq[i + 1] ELSE seq[Len(seq) + i + 1]

(***************************************************************************)
(* AcquisitionDetails and Tile                                             *)
(***************************************************************************)
NoChannels == "None"
NoDataType == "None"

AcquisitionDetails(pixelsize, z_spacing, channels, is_time_series, data_type) ==
    [pixelsize |-> pixelsize, z_spacing |-> z_spacing, t_spacing |-> 1,
     channels |-> channels, time_axis |-> is_time_series,
     data_type |-> data_type]

\* advanced.update_acquisition_details: the fields the user set replace the
\* inferred ones
update_acquisition_details(advanced, acquisition_details) ==
    [f \in DOMAIN acquisition_details |->
        IF f \in advanced.set THEN advanced.values[f] ELSE acquisition_details[f]]

Tile(acq, plate, row, column, fov, x, y, z, c, t, file, details, attributes) ==
    [path |-> acq.path, plate_name |-> plate, row |-> row, column |-> column,
     fov |-> fov, acquisition |-> acq.acquisition_id, file_path |-> file,
     start_x |-> x, start_y |-> y, start_z |-> z, start_c |-> c, start_t |-> t,
     length_z |-> 1, length_c |-> 1, length_t |-> 1,
     acquisition_details |-> details, attributes |-> attributes]

ZWarning == "Z spacing is not constant, using mean value."
ZSpacingError == "Z spacing is not constant."
IndexError == "IndexError: list index out of range"

Built(tiles, warns) == [err |-> NoError, tiles |-> tiles, warnings |-> warns]
BuildRaised(msg) == [err |-> msg, tiles |-> <<>>, warnings |-> <<>>]

(***************************************************************************)
(* CQ3K                                                                    *)
(***************************************************************************)
\* cq3k/utils.py lines 211-219
cq3k_get_z_spacing(images) ==
    LET z_positions == Sorted({images[i].z : i \in DOMAIN images})
    IN  IF Len(z_positions) <= 1
        THEN [value |-> Frac(1, 1), warn |-> FALSE]
        ELSE LET delta_z == Diff(z_positions)
             IN  [value |-> Mean(delta_z),
                  warn  |-> ~allclose(delta_z, delta_z[1])]

cq3k_is_time_series_SeveralRecords(images) == Len(images) > 1

\* lines 222-225
cq3k_is_time_series(images) ==
    Cardinality({images[i].time_point : i \in DOMAIN images}) > 1

cq3k_build_acquisition_details_OverridesFirst(images, detail, acquisition_model) ==
    LET updated == update_acquisition_details(acquisition_model.advanced,
                       AcquisitionDetails(1, Frac(1, 1), NoChannels, FALSE, NoDataType))
    IN  [updated EXCEPT !.pixelsize = detail.horizontal_pixel_dimension,
                        !.z_spacing = cq3k_get_z_spacing(images).value,
                        !.time_axis = cq3k_is_time_series(images)]

\* lines 228-271
cq3k_build_acquisition_details(images, detail, acquisition_model) ==
    update_acquisition_details(acquisition_model.advanced,
        AcquisitionDetails(detail.horizontal_pixel_dimension,
                           cq3k_get_z_spacing(images).value,
                           NoChannels, cq3k_is_time_series(images), NoDataType))

cq3k_tile_NoFlip(img, acq, plate, row, column, fov_idx, details, attributes) ==
    Tile(acq, plate, row, column, fov_idx,
         img.x, img.y, img.z_index - 1, img.ch, img.time_point - 1,
         join_url_paths(acq.path, <<img.value>>), details, attributes)

\* lines 317-341: the Tile of one record
cq3k_tile(img, acq, plate, row, column, fov_idx, details, attributes) ==
    Tile(acq, plate, row, column, fov_idx,
         img.x, -img.y, img.z_index - 1, img.ch, img.time_point - 1,
         join_url_paths(acq.path, <<img.value>>), details, attributes)

\* lines 274-343
cq3k_build_tiles(images, detail, acquisition_model, row, column, fov_idx, z_type, attributes) ==
    LET acquisition_details ==
            cq3k_build_acquisition_details(images, detail, acquisition_model)
        plate_name == <<acquisition_model.plate_name, z_type>>
    IN  Built([i \in DOMAIN images |->
                  cq3k_tile(images[i], acquisition_model, plate_name, row, column,
                            fov_idx, acquisition_details, attributes)],
              IF cq3k_get_z_spacing(images).warn THEN <<ZWarning>> ELSE <<>>)

RECURSIVE cq3k_group_NoZType(_, _)
cq3k_group_NoZType(records, plates_groups) ==
    IF records = <<>> THEN [err |-> NoError, groups |-> plates_groups]
    ELSE
    LET record == Head(records)
    IN  IF record.type # "IMG" THEN cq3k_group_NoZType(Tail(records), plates_groups)
        ELSE
        LET key == [z_type |-> "None",
                    row |-> <<PyIndex(STANDARD_ROWS_NAMES, record.row - 1)>>,
                    column |-> record.column, fov_idx |-> record.field_index]
            at == {g \in DOMAIN plates_groups : plates_groups[g].key = key}
        IN  cq3k_group_NoZType(Tail(records),
                IF at = {}
                THEN Append(plates_groups, [key |-> key, images |-> <<record>>])
                ELSE [g \in DOMAIN plates_groups |->
                         IF g \in at
                         THEN [key |-> key,
                               images |-> Append(plates_groups[g].images, record)]
                         ELSE plates_groups[g]])

\* lines 379-396: plates_groups, a dict in insertion order
RECURSIVE cq3k_group(_, _)
cq3k_group(records, plates_groups) ==
    IF records = <<>> THEN [err |-> NoError, groups |-> plates_groups]
    ELSE
    LET record == Head(records)
    IN  IF record.type # "IMG" THEN cq3k_group(Tail(records), plates_groups)
        ELSE IF ~PyIndexOk(STANDARD_ROWS_NAMES, record.row - 1)
        THEN [err |-> IndexError, groups |-> <<>>]
        ELSE
        LET key == [z_type |-> record.z_image_processing,
                    row |-> <<PyIndex(STANDARD_ROWS_NAMES, record.row - 1)>>,
                    column |-> record.column, fov_idx |-> record.field_index]
            at == {g \in DOMAIN plates_groups : plates_groups[g].key = key}
        IN  cq3k_group(Tail(records),
                IF at = {}
                THEN Append(plates_groups, [key |-> key, images |-> <<record>>])
                ELSE [g \in DOMAIN plates_groups |->
                         IF g \in at
                         THEN [key |-> key,
                               images |-> Append(plates_groups[g].images, record)]
                         ELSE plates_groups[g]])

(***************************************************************************)
(* Operetta                                                                *)
(***************************************************************************)
UnknownUnitError == "Unknown unit"

MeasureWithUnit(unit, value) == [unit |-> unit, value |-> value]

KnownUnit(m) == m.unit \in {"um", "nm", "m"}

\* operetta/utils.py lines 70-79; the nm values at hand are multiples of 1000
to_um(m) ==
    CASE m.unit = "um" -> m.value
      [] m.unit = "nm" -> m.value \div 1000
      [] m.unit = "m"  -> m.value * 1000000

\* lines 163-171
operetta_get_z_spacing(images) ==
    LET z_positions == Sorted({to_um(images[i].pos_z) : i \in DOMAIN images})
    IN  IF Len(z_positions) <= 1
        THEN [value |-> Frac(1, 1), warn |-> FALSE]
        ELSE LET delta_z == Diff(z_positions)
             IN  [value |-> Mean(delta_z),
                  warn  |-> ~allclose(delta_z, delta_z[1])]

\* lines 174-177
operetta_is_time_series(images) ==
    Cardinality({images[i].timepoint_id : i \in DOMAIN images}) > 1

\* lines 180-186: the name first seen for each channel id, in id order
_channel_names(images) ==
    LET ids == Sorted({images[i].channel_id : i \in DOMAIN images})
    IN  [k \in DOMAIN ids |->
            images[CHOOSE i \in DOMAIN images :
                       /\ images[i].channel_id = ids[k]
                       /\ \A j \in 1..(i - 1) : images[j].channel_id # ids[k]]
                .channel_name]

_get_data_type_FirstRecord(images) ==
    IF images = <<>> THEN "uint16"
    ELSE LET max_intensity == images[1].max_intensity
         IN  IF max_intensity <= 255 THEN "uint8"
             ELSE IF max_intensity <= 65535 THEN "uint16"
             ELSE "uint32"

\* lines 189-199
_get_data_type(images) ==
    IF images = <<>> THEN "uint16"
    ELSE LET max_intensity ==
                 CHOOSE m \in {images[i].max_intensity : i \in DOMAIN images} :
                     \A i \in DOMAIN images : images[i].max_intensity <= m
         IN  IF max_intensity <= 255 THEN "uint8"
             ELSE IF max_intensity <= 65535 THEN "uint16"
             ELSE "uint32"

\* lines 202-243
operetta_build_acquisition_details(images, detail, acquisition_model) ==
    update_acquisition_details(acquisition_model.advanced,
        AcquisitionDetails(to_um(detail.resolution_x),
                           operetta_get_z_spacing(images).value,
                           _channel_names(images),
                           operetta_is_time_series(images),
                           _get_data_type(images)))

\* lines 274-300: the Tile of one record
operetta_tile(img, acq, row, column, fov_idx, details, attributes) ==
    Tile(acq, <<acq.plate_name>>, row, column, fov_idx,
         to_um(img.pos_x), -to_um(img.pos_y),
         img.plane_id - 1, img.channel_id - 1, img.timepoint_id,
         join_url_paths(acq.path, <<S_Images, img.url>>), details, attributes)

\* operetta_build_tiles with a descriptor built for each tile from its record
operetta_build_tiles_DetailsPerTile(images, acquisition_model, row, column, fov_idx, attributes) ==
    IF \E i \in DOMAIN images :
           \/ ~KnownUnit(images[i].resolution_x)
           \/ ~KnownUnit(images[i].pos_x)
           \/ ~KnownUnit(images[i].pos_y)
           \/ ~KnownUnit(images[i].pos_z)
    THEN BuildRaised(UnknownUnitError)
    ELSE Built([i \in DOMAIN images |->
                   operetta_tile(images[i], acquisition_model, row, column, fov_idx,
                                 operetta_build_acquisition_details(
                                     <<images[i]>>, images[i], acquisition_model),
                                 attributes)],
               <<>>)

\* lines 246-302; MeasureWithUnit.to_um raises on a unit it does not know
operetta_build_tiles(images, acquisition_model, row, column, fov_idx, attributes) ==
    LET image_0 == images[1]
    IN  IF \/ ~KnownUnit(image_0.resolution_x)
           \/ ~KnownUnit(image_0.resolution_y)
           \/ \E i \in DOMAIN images :
                  \/ ~KnownUnit(images[i].pos_x)
                  \/ ~KnownUnit(images[i].pos_y)
                  \/ ~KnownUnit(images[i].pos_z)
        THEN BuildRaised(UnknownUnitError)
        ELSE
        LET acquisition_details ==
                operetta_build_acquisition_details(images, image_0, acquisition_model)
        IN  Built([i \in DOMAIN images |->
                      operetta_tile(images[i], acquisition_model, row, column,
                                    fov_idx, acquisition_details, attributes)],
                  IF operetta_get_z_spacing(images).warn THEN <<ZWarning>> ELSE <<>>)

\* lines 332-348: plates_groups, a dict in insertion order
RECURSIVE operetta_group(_, _)
operetta_group(data, plates_groups) ==
    IF data = <<>> THEN [err |-> NoError, groups |-> plates_groups]
    ELSE
    LET img == Head(data)
        key == [row |-> img.row, column |-> img.column, fov_idx |-> img.field_id]
        at == {g \in DOMAIN plates_groups : plates_groups[g].key = key}
    IN  operetta_group(Tail(data),
            IF at = {}
            THEN Append(plates_groups, [key |-> key, images |-> <<img>>])
            ELSE [g \in DOMAIN plates_groups |->
                     IF g \in at
                     THEN [key |-> key,
                           images |-> Append(plates_groups[g].images, img)]
                     ELSE plates_groups[g]])

(***************************************************************************)
(* ScanR                                                                   *)
(***************************************************************************)
\* an optional value: <<v>>, or <<>> for None
Some(v) == <<v>>
Nothing == <<>>
\* `v or default` on an optional number
OrElse(o, default) == IF o = Nothing \/ o = Some(0) THEN default ELSE o[1]

WellOutOfBoundsError == "Well id is out of bounds for layout"
NoWellPositionError == "Could not extract Well and Position information"
AssertionError == "Could not find matching TIFF for plane"

\* olympus_scanr/utils.py lines 31-48
STANDARD_PLATES_LAYOUTS(layout) ==
    CASE layout = "24-well"  -> [rows |-> 4, columns |-> 6]
      [] layout = "48-well"  -> [rows |-> 6, columns |-> 8]
      [] layout = "96-well"  -> [rows |-> 8, columns |-> 12]
      [] layout = "384-well" -> [rows |-> 16, columns |-> 24]

\* lines 85-100; // and % round towards minus infinity, as \div and % do
_wellid_to_row_column(well_id, layout) ==
    LET layout_dict == STANDARD_PLATES_LAYOUTS(layout)
        num_columns == layout_dict.columns
        w == well_id - 1
        row == w \div num_columns
        column == (w % num_columns) + 1
    IN  IF row >= layout_dict.rows THEN [err |-> WellOutOfBoundsError]
        ELSE IF ~PyIndexOk(STANDARD_ROWS_NAMES, row) THEN [err |-> IndexError]
        ELSE [err |-> NoError, row |-> <<PyIndex(STANDARD_ROWS_NAMES, row)>>,
              column |-> column]

\* lines 103-117; an id the pattern W(\d+)P(\d+) does not match is Nothing
_extract_well_position_id(id, layout) ==
    IF id = Nothing THEN [err |-> NoWellPositionError]
    ELSE LET rc == _wellid_to_row_column(id[1].well, layout)
         IN  IF rc.err # NoError THEN rc
             ELSE [err |-> NoError, row |-> rc.row, column |-> rc.column,
                   pos_id |-> id[1].pos]

scanr_get_z_spacing_WarnOnly(image) ==
    LET planes == SelectSeq(image.planes,
                            LAMBDA plane : plane.the_t = 0 /\ plane.the_c = 0)
        positions_z == [i \in DOMAIN planes |-> planes[i].position_z]
    IN  IF Len(positions_z) = 0 \/ Len(positions_z) = 1
        THEN [err |-> NoError, value |-> 1]
        ELSE [err |-> NoError, value |-> Diff(positions_z)[1]]

\* lines 132-145: the z positions of the planes of timepoint 0 and channel 0,
\* in plane order
scanr_get_z_spacing(image) ==
    LET planes == SelectSeq(image.planes,
                            LAMBDA plane : plane.the_t = 0 /\ plane.the_c = 0)
        positions_z == [i \in DOMAIN planes |-> planes[i].position_z]
    IN  IF Len(positions_z) = 0 \/ Len(positions_z) = 1
        THEN [err |-> NoError, value |-> 1]
        ELSE LET delta_z == Diff(positions_z)
             IN  IF ~allclose(delta_z, delta_z[1])
                 THEN [err |-> ZSpacingError, value |-> 0]
                 ELSE [err |-> NoError, value |-> delta_z[1]]

\* lines 148-154
_mean_z_spacing(list_images) ==
    LET z_spacings == [i \in DOMAIN list_images |->
                          scanr_get_z_spacing(list_images[i])]
    IN  IF \E i \in DOMAIN z_spacings : z_spacings[i].err # NoError
        THEN [err |-> ZSpacingError, value |-> Frac(0, 1)]
        ELSE [err |-> NoError,
              value |-> Mean([i \in DOMAIN z_spacings |-> z_spacings[i].value])]

\* lines 157-160
scanr_is_time_series(image) ==
    Cardinality({image.planes[i].the_t : i \in DOMAIN image.planes}) > 1

\* lines 120-129
_get_channel_names(image) ==
    IF \A i \in DOMAIN image.channels : image.channels[i] # Nothing
    THEN [i \in DOMAIN image.channels |-> image.channels[i][1]]
    ELSE NoChannels

\* lines 163-203
scanr_build_acquisition_details(image_meta, acquisition_model, is_time_series, z_spacing) ==
    update_acquisition_details(acquisition_model.advanced,
        AcquisitionDetails(OrElse(image_meta.physical_size_x, 1), z_spacing,
                           _get_channel_names(image_meta), is_time_series,
                           NoDataType))

PlaneKey(plane) == <<plane.the_t, plane.the_c, plane.the_z>>
TiffKey(tiff) == <<tiff.first_t, tiff.first_c, tiff.first_z>>

\* the keys of a dict filled in list order: each key once, first seen first
RECURSIVE DictKeys(_, _)
DictKeys(keys, seen) ==
    IF keys = <<>> THEN seen
    ELSE DictKeys(Tail(keys),
                  IF Head(keys) \in Range(seen) THEN seen
                  ELSE Append(seen, Head(keys)))

\* the value a dict filled in list order holds for a key: the last one stored
LastPlane(planes, key) ==
    planes[CHOOSE i \in DOMAIN planes :
               /\ PlaneKey(planes[i]) = key
               /\ \A j \in (i + 1)..Len(planes) : PlaneKey(planes[j]) # key]

LastTiff(tiff_data_block, key) ==
    tiff_data_block[CHOOSE i \in DOMAIN tiff_data_block :
                        /\ TiffKey(tiff_data_block[i]) = key
                        /\ \A j \in (i + 1)..Len(tiff_data_block) :
                               TiffKey(tiff_data_block[j]) # key]

\* _match_tiff_to_plane leaving out the planes that have no file block
_match_tiff_to_plane_SkipUnmatched(tiff_data_block, planes) ==
    LET tiff_keys == {TiffKey(tiff_data_block[i]) : i \in DOMAIN tiff_data_block}
        keys == SelectSeq(DictKeys([i \in DOMAIN planes |-> PlaneKey(planes[i])], <<>>),
                          LAMBDA key : key \in tiff_keys)
    IN  [err |-> NoError,
         matched |->
             [k \in DOMAIN keys |->
                 LET plane == LastPlane(planes, keys[k])
                 IN  [x |-> OrElse(plane.position_x, 0),
                      y |-> OrElse(plane.position_y, 0),
                      z |-> plane.the_z, c |-> plane.the_c, t |-> plane.the_t,
                      tiff_path |-> LastTiff(tiff_data_block, keys[k]).file_name]]]

\* lines 217-239
_match_tiff_to_plane(tiff_data_block, planes) ==
    LET keys == DictKeys([i \in DOMAIN planes |-> PlaneKey(planes[i])], <<>>)
        tiff_keys == {TiffKey(tiff_data_block[i]) : i \in DOMAIN tiff_data_block}
    IN  IF \E k \in DOMAIN keys : keys[k] \notin tiff_keys
        THEN [err |-> AssertionError, matched |-> <<>>]
        ELSE [err |-> NoError,
              matched |->
                  [k \in DOMAIN keys |->
                      LET plane == LastPlane(planes, keys[k])
                      IN  [x |-> OrElse(plane.position_x, 0),
                           y |-> OrElse(plane.position_y, 0),
                           z |-> plane.the_z, c |-> plane.the_c, t |-> plane.the_t,
                           tiff_path |->
                               LastTiff(tiff_data_block, keys[k]).file_name]]]

\* lines 284-306: the Tile of one matched plane
scanr_tile(plane_info, acq, row, column, pos_id, details, attributes) ==
    Tile(acq, <<acq.plate_name>>, row, column, pos_id,
         OrElse(Some(plane_info.x), 0), -OrElse(Some(plane_info.y), 0),
         plane_info.z, plane_info.c, plane_info.t,
         join_url_paths(join_url_paths(acq.path, <<S_data>>), <<plane_info.tiff_path>>),
         details, attributes)

\* lines 242-308
scanr_build_tiles(image_meta, acquisition_model, mean_z_spacing, table) ==
    LET wp == _extract_well_position_id(image_meta.id, acquisition_model.layout)
    IN  IF wp.err # NoError THEN BuildRaised(wp.err)
        ELSE
        LET acquisition_details ==
                scanr_build_acquisition_details(image_meta, acquisition_model,
                    scanr_is_time_series(image_meta), mean_z_spacing)
            matched_planes ==
                _match_tiff_to_plane(image_meta.tiff_data_blocks, image_meta.planes)
        IN  IF matched_planes.err # NoError THEN BuildRaised(matched_planes.err)
            ELSE
            LET attributes ==
                    get_attributes_from_condition_table(table, wp.row, wp.column,
                        acquisition_model.acquisition_id)
            IN  IF attributes.err # NoError THEN BuildRaised(attributes.err)
                ELSE Built([k \in DOMAIN matched_planes.matched |->
                               scanr_tile(matched_planes.matched[k],
                                          acquisition_model, wp.row, wp.column,
                                          wp.pos_id, acquisition_details,
                                          attributes.attributes)],
                           <<>>)

(***************************************************************************)
(* The metadata a parser can find                                          *)
(***************************************************************************)
Unreadable == [readable |-> FALSE]
Readable(content) == [readable |-> TRUE, content |-> content]

ListsUpTo(pool, n) == UNION {[1..k -> pool] : k \in 0..n}

CQ3KImage(row, column, fov, t, x, y, z, z_index, ch, z_type) ==
    [type |-> "IMG", row |-> row, column |-> column, field_index |-> fov,
     time_point |-> t, x |-> x, y |-> y, z |-> z, z_index |-> z_index,
     ch |-> ch, z_image_processing |-> z_type,
     value |-> <<"i", "m", "g", row, column, fov, t, z_index, ch>>]

CQ3KError == [type |-> "ERR"]

CQ3KRecords ==
    {CQ3KImage(1, 1, 1, 1, 10, 20, 0, 1, 1, "None"),
     CQ3KImage(1, 1, 1, 1, 10, 20, 2, 2, 1, "None"),
     CQ3KImage(1, 1, 1, 2, 10, 20, 5, 3, 2, "None"),
     CQ3KImage(1, 1, 1, 1, 10, 20, 0, 1, 1, "MIP"),
     CQ3KImage(2, 1, 1, 1, -4, -3, 0, 1, 2, "None"),
     \* a record whose row number is 0
     CQ3KImage(0, 1, 1, 1, 10, 20, 0, 1, 1, "None"),
     CQ3KError}

\* the first measurement channel of MeasurementDetail.mrf
CQ3KDetail ==
    [horizontal_pixel_dimension |-> 3, vertical_pixel_dimension |-> 3,
     horizontal_pixels |-> 2000, vertical_pixels |-> 2000]

OperettaImage(row, column, fov, plane, channel, t, name, x, y, z, intensity) ==
    [row |-> row, column |-> column, field_id |-> fov, plane_id |-> plane,
     channel_id |-> channel, timepoint_id |-> t, channel_name |-> name,
     resolution_x |-> MeasureWithUnit("nm", 3000),
     resolution_y |-> MeasureWithUnit("nm", 3000),
     max_intensity |-> intensity, pos_x |-> x, pos_y |-> y, pos_z |-> z,
     url |-> <<"r", column, fov, plane, channel, t>>]

OperettaRecords ==
    {OperettaImage(<<"A">>, 1, 1, 1, 1, 0, "DAPI", MeasureWithUnit("um", 10),
                   MeasureWithUnit("um", 20), MeasureWithUnit("um", 0), 255),
     OperettaImage(<<"A">>, 1, 1, 2, 1, 0, "DAPI", MeasureWithUnit("um", 10),
                   MeasureWithUnit("um", 20), MeasureWithUnit("um", 2), 256),
     OperettaImage(<<"A">>, 1, 1, 3, 3, 1, "Cy5", MeasureWithUnit("um", 10),
                   MeasureWithUnit("nm", 20000), MeasureWithUnit("nm", 5000), 65536),
     OperettaImage(<<"B">>, 1, 1, 1, 2, 0, "GFP", MeasureWithUnit("m", 1),
                   MeasureWithUnit("um", -3), MeasureWithUnit("um", 0), 65535),
     OperettaImage(<<"A">>, 1, 2, 1, 1, 0, "DAPI", MeasureWithUnit("um", -4),
                   MeasureWithUnit("m", 0), MeasureWithUnit("um", 0), 200),
     OperettaImage(<<"A">>, 1, 1, 1, 1, 0, "DAPI", MeasureWithUnit("um", 10),
                   MeasureWithUnit("mm", 20), MeasureWithUnit("um", 0), 200)}

Plane(t, c, z, x, y, position_z) ==
    [the_t |-> t, the_c |-> c, the_z |-> z, position_x |-> x, position_y |-> y,
     position_z |-> position_z]

TiffData(t, c, z) ==
    [first_t |-> t, first_c |-> c, first_z |-> z, file_name |-> <<"t", t, c, z>>]

ScanRImage(well, pos, planes, blocks) ==
    [id |-> Some([well |-> well, pos |-> pos]), physical_size_x |-> Some(3),
     channels |-> <<Some("DAPI")>>, planes |-> planes,
     tiff_data_blocks |-> blocks]

ScanRImages ==
    {\* one plane
     ScanRImage(1, 1, <<Plane(0, 0, 0, Some(10), Some(20), 0)>>,
                <<TiffData(0, 0, 0)>>),
     \* three planes, evenly spaced
     ScanRImage(1, 2, <<Plane(0, 0, 0, Some(10), Some(20), 0),
                        Plane(0, 0, 1, Some(10), Some(20), 3),
                        Plane(0, 0, 2, Some(10), Some(20), 6)>>,
                <<TiffData(0, 0, 0), TiffData(0, 0, 1), TiffData(0, 0, 2)>>),
     \* three planes, unevenly spaced
     ScanRImage(2, 1, <<Plane(0, 0, 0, Some(10), Some(20), 0),
                        Plane(0, 0, 1, Some(10), Some(20), 3),
                        Plane(0, 0, 2, Some(10), Some(20), 7)>>,
                <<TiffData(0, 0, 0), TiffData(0, 0, 1), TiffData(0, 0, 2)>>),
     \* two planes with one and the same (t, c, z)
     ScanRImage(7, 1, <<Plane(0, 0, 0, Some(10), Some(20), 0),
                        Plane(0, 0, 0, Some(11), Some(21), 0)>>,
                <<TiffData(0, 0, 0)>>),
     \* z positions going down, no stage position, two timepoints
     ScanRImage(1, 3, <<Plane(0, 0, 0, Nothing, Nothing, 4),
                        Plane(0, 0, 1, Some(-4), Some(-3), 2),
                        Plane(1, 1, 0, Some(10), Some(20), 4)>>,
                <<TiffData(1, 1, 0), TiffData(0, 0, 0), TiffData(0, 0, 1)>>),
     \* well id 0
     ScanRImage(0, 1, <<Plane(0, 0, 0, Some(10), Some(20), 0)>>,
                <<TiffData(0, 0, 0)>>),
     \* a plane without its file block
     ScanRImage(1, 4, <<Plane(0, 0, 0, Some(10), Some(20), 0),
                        Plane(0, 1, 0, Some(10), Some(20), 0)>>,
                <<TiffData(0, 0, 0)>>)}

Sources(vendor) ==
    {Unreadable} \cup
    CASE vendor = "cq3k" ->
             {Readable(Nothing)} \cup
             {Readable(Some(l)) : l \in ListsUpTo(CQ3KRecords, MaxRecords)}
      [] vendor = "operetta" ->
             {Readable(l) : l \in ListsUpTo(OperettaRecords, MaxRecords)}
      [] vendor = "scanr" ->
             {Readable(l) : l \in ListsUpTo(ScanRImages, MaxRecords)}

NoOverrides == [set |-> {}, values |-> <<>>]
Overrides == [set |-> {"z_spacing", "pixelsize"},
              values |-> [z_spacing |-> Frac(9, 1), pixelsize |-> 7]]

WellTable ==
    DataFrame(<<S_row, S_column, S_drug>>,
              <<<<StrCell(<<"A">>), IntCell(1), StrCell(<<"x">>)>>>>)
BrokenTable ==
    DataFrame(<<S_column, S_drug>>, <<<<IntCell(1), StrCell(<<"x">>)>>>>)

TileAcquisitionModel(table, advanced) ==
    [path |-> <<"p">>, plate_name |-> "plate", acquisition_id |-> 0,
     layout |-> "24-well", table |-> table, advanced |-> advanced]

TileAcquisitionModels ==
    {TileAcquisitionModel(NoTable, NoOverrides),
     TileAcquisitionModel(WellTable, NoOverrides),
     TileAcquisitionModel(WellTable, Overrides),
     TileAcquisitionModel(BrokenTable, NoOverrides)}

(***************************************************************************)
(* One vendor parser at work on one acquisition                            *)
(***************************************************************************)
Step(name, g, tiles) == [step |-> name, g |-> g, tiles |-> tiles]

InitTiles ==
    /\ t_vendor \in Vendors
    /\ t_acq \in TileAcquisitionModels
    /\ t_source \in Sources(t_vendor)
    /\ t_pc = "start"
    /\ t_meta = <<>>
    /\ t_mean_z = <<>>
    /\ t_groups = <<>>
    /\ t_gi = 0
    /\ t_attrs = <<>>
    /\ t_tiles = <<>>
    /\ t_log = <<>>
    /\ t_warnings = <<>>
    /\ t_error = NoError
    /\ t_result = <<>>
    /\ AcqIdle
    /\ CondIdle
    /\ PathIdle

TileRaise(msg) ==
    /\ t_error' = msg
    /\ t_pc' = "raised"

\* _load_models / from_xml: the metadata files are read and validated
LoadModels ==
    /\ t_pc = "start"
    /\ IF ~t_source.readable
       THEN /\ TileRaise(LoadError)
            /\ UNCHANGED <<t_meta, t_log>>
       ELSE /\ t_meta' = t_source.content
            /\ t_log' = Append(t_log, Step("load", 0, <<>>))
            /\ t_pc' = "loaded"
            /\ UNCHANGED t_error
    /\ UNCHANGED <<t_vendor, t_acq, t_source, t_mean_z, t_groups, t_gi, t_attrs,
                   t_tiles, t_warnings, t_result>>
    /\ UNCHANGED notTileVars

\* CQ3K and Operetta: get_condition_table, the emptiness check, the grouping
GroupRecords ==
    /\ t_pc = "loaded"
    /\ t_vendor \in {"cq3k", "operetta"}
    /\ t_log' = Append(t_log, Step("condition_table", 0, <<>>))
    /\ LET empty == IF t_vendor = "cq3k" THEN t_meta = Nothing
                    ELSE Len(t_meta) = 0
           grouped == IF t_vendor = "cq3k" THEN cq3k_group(t_meta[1], <<>>)
                      ELSE operetta_group(t_meta, <<>>)
       IN  IF empty
           THEN /\ TileRaise(NoRecordsError)
                /\ UNCHANGED <<t_groups, t_gi>>
           ELSE IF grouped.err # NoError
           THEN /\ TileRaise(grouped.err)
                /\ UNCHANGED <<t_groups, t_gi>>
           ELSE /\ t_groups' = grouped.groups
                /\ t_gi' = 1
                /\ t_pc' = "groups"
                /\ UNCHANGED t_error
    /\ UNCHANGED <<t_vendor, t_acq, t_source, t_meta, t_mean_z, t_attrs, t_tiles,
                   t_warnings, t_result>>
    /\ UNCHANGED notTileVars

\* CQ3K and Operetta: the attributes of the group at hand
ResolveAttributes ==
    /\ t_pc = "groups"
    /\ t_vendor \in {"cq3k", "operetta"}
    /\ t_gi <= Len(t_groups)
    /\ LET key == t_groups[t_gi].key
           attributes == get_attributes_from_condition_table(
                             t_acq.table, key.row, key.column, t_acq.acquisition_id)
       IN  IF attributes.err # NoError
           THEN /\ TileRaise(attributes.err)
                /\ UNCHANGED <<t_attrs, t_log>>
           ELSE /\ t_attrs' = attributes.attributes
                /\ t_log' = Append(t_log, Step("attributes", t_gi, <<>>))
                /\ t_pc' = "attributes"
                /\ UNCHANGED t_error
    /\ UNCHANGED <<t_vendor, t_acq, t_source, t_meta, t_mean_z, t_groups, t_gi,
                   t_tiles, t_warnings, t_result>>
    /\ UNCHANGED notTileVars

\* CQ3K and Operetta: _build_tiles of the group at hand, all_tiles.extend
BuildTiles ==
    /\ t_pc = "attributes"
    /\ LET key == t_groups[t_gi].key
           images == t_groups[t_gi].images
           built == IF t_vendor = "cq3k"
                    THEN cq3k_build_tiles(images, CQ3KDetail, t_acq, key.row,
                                          key.column, key.fov_idx, key.z_type,
                                          t_attrs)
                    ELSE operetta_build_tiles(images, t_acq, key.row, key.column,
                                              key.fov_idx, t_attrs)
       IN  IF built.err # NoError
           THEN /\ TileRaise(built.err)
                /\ UNCHANGED <<t_tiles, t_log, t_warnings, t_gi>>
           ELSE /\ t_tiles' = t_tiles \o built.tiles
                /\ t_log' = Append(t_log, Step("tiles", t_gi, built.tiles))
                /\ t_warnings' = t_warnings \o built.warnings
                /\ t_gi' = t_gi + 1
                /\ t_pc' = "groups"
                /\ UNCHANGED t_error
    /\ UNCHANGED <<t_vendor, t_acq, t_source, t_meta, t_mean_z, t_groups, t_attrs,
                   t_result>>
    /\ UNCHANGED notTileVars

\* ScanR: the emptiness check, get_condition_table, _mean_z_spacing
MeanZSpacing ==
    /\ t_pc = "loaded"
    /\ t_vendor = "scanr"
    /\ IF Len(t_meta) = 0
       THEN /\ TileRaise(NoImagesInFileError)
            /\ UNCHANGED <<t_mean_z, t_groups, t_gi, t_log>>
       ELSE /\ t_log' = Append(t_log, Step("condition_table", 0, <<>>))
            /\ LET mean_z_spacing == _mean_z_spacing(t_meta)
               IN  IF mean_z_spacing.err # NoError
                   THEN /\ TileRaise(mean_z_spacing.err)
                        /\ UNCHANGED <<t_mean_z, t_groups, t_gi>>
                   ELSE /\ t_mean_z' = mean_z_spacing.value
                        /\ t_groups' = t_meta
                        /\ t_gi' = 1
                        /\ t_pc' = "groups"
                        /\ UNCHANGED t_error
    /\ UNCHANGED <<t_vendor, t_acq, t_source, t_meta, t_attrs, t_tiles,
                   t_warnings, t_result>>
    /\ UNCHANGED notTileVars

\* ScanR: _build_tiles of the image at hand, tiles.extend
BuildImageTiles ==
    /\ t_pc = "groups"
    /\ t_vendor = "scanr"
    /\ t_gi <= Len(t_groups)
    /\ LET built == scanr_build_tiles(t_groups[t_gi], t_acq, t_mean_z, t_acq.table)
       IN  IF built.err # NoError
           THEN /\ TileRaise(built.err)
                /\ UNCHANGED <<t_tiles, t_log, t_gi>>
           ELSE /\ t_tiles' = t_tiles \o built.tiles
                /\ t_log' = Append(t_log, Step("tiles", t_gi, built.tiles))
                /\ t_gi' = t_gi + 1
                /\ t_pc' = "groups"
                /\ UNCHANGED t_error
    /\ UNCHANGED <<t_vendor, t_acq, t_source, t_meta, t_mean_z, t_groups, t_attrs,
                   t_warnings, t_result>>
    /\ UNCHANGED notTileVars

\* Aggregate run one group early
Aggregate_BeforeLastGroup ==
    /\ t_pc = "groups"
    /\ t_gi >= Len(t_groups)
    /\ t_result' = tiles_aggregation_pipeline(t_tiles)
    /\ t_log' = Append(t_log, Step("aggregate", 0, <<>>))
    /\ t_pc' = "done"
    /\ UNCHANGED <<t_vendor, t_acq, t_source, t_meta, t_mean_z, t_groups, t_gi,
                   t_attrs, t_tiles, t_warnings, t_error>>
    /\ UNCHANGED notTileVars

\* tiles_aggregation_pipeline over all the tiles, then return
Aggregate ==
    /\ t_pc = "groups"
    /\ t_gi > Len(t_groups)
    /\ t_result' = tiles_aggregation_pipeline(t_tiles)
    /\ t_log' = Append(t_log, Step("aggregate", 0, <<>>))
    /\ t_pc' = "done"
    /\ UNCHANGED <<t_vendor, t_acq, t_source, t_meta, t_mean_z, t_groups, t_gi,
                   t_attrs, t_tiles, t_warnings, t_error>>
    /\ UNCHANGED notTileVars

NextTiles ==
    \/ LoadModels
    \/ GroupRecords
    \/ ResolveAttributes
    \/ BuildTiles
    \/ MeanZSpacing
    \/ BuildImageTiles
    \/ Aggregate

SpecTiles == InitTiles /\ [][NextTiles]_vars

(***************************************************************************)
(* Properties of parse_acquisitions                                        *)
(***************************************************************************)
Terminal == pc \in {"done", "raised"}

EventsOf(kind) == SelectSeq(events, LAMBDA e : e.ev = kind)

ParserFailed == EventsOf("raise") # <<>>

Called(i) == \E k \in DOMAIN events : events[k].ev = "call" /\ events[k].i = i

ParserErrors == {LoadError, NoRecordsError, NoImagesInFileError}

\* what parse_function returned for acquisition i (it returned once)
ResultFor(i) ==
    LET k == CHOOSE k \in DOMAIN events :
                 events[k].ev = "return" /\ events[k].i = i
    IN  events[k].images

RECURSIVE ConcatResults(_, _)
ConcatResults(i, n) ==
    IF i > n THEN <<>> ELSE ResultFor(i) \o ConcatResults(i + 1, n)

\* C1: with an empty acquisitions list parse_acquisitions raises
\* "Acquisitions list is empty." and parse_function was invoked zero times.
C1_EmptyListRaisesBeforeParsing ==
    acquisitions = <<>> =>
        /\ events = <<>>
        /\ pc \in {"start", "raised"}
        /\ pc = "raised" => error = EmptyListError

C1_Witness == acquisitions = <<>> /\ pc = "raised"

\* C2: for a non-empty list on which no parser call fails, the value returned
\* is the concatenation, in list order, of what parse_function returned for
\* each acquisition, and parse_acquisitions raises exactly when every
\* acquisition returned an empty list.
C2_ResultIsConcatenation ==
    (Terminal /\ acquisitions # <<>> /\ ~ParserFailed) =>
        LET n == Len(acquisitions)
        IN  /\ \A i \in 1..n : \E k \in DOMAIN events :
                   events[k].ev = "return" /\ events[k].i = i
            /\ pc = "done" => tiled_images = ConcatResults(1, n)
            /\ pc = "raised" <=> \A i \in 1..n : ResultFor(i) = <<>>
            /\ pc = "raised" => error = NoImagesError

C2_Witness ==
    /\ pc = "done"
    /\ ~ParserFailed
    /\ Len(acquisitions) = 3
    /\ ResultFor(1) # <<>>
    /\ ResultFor(2) = <<>>
    /\ Len(ResultFor(3)) = 2

\* C3 as stated: after parse_function failed for one acquisition it is still
\* invoked for every remaining acquisition of the list.
C3_Original_FailureDoesNotAbort ==
    (Terminal /\ ParserFailed) => \A i \in DOMAIN acquisitions : Called(i)

\* C3 amended: a failure of parse_function leaves parse_acquisitions at once
\* as its error; the failing call is the last event and parse_function is
\* invoked for no later acquisition.  Only an empty result is skipped
\* without ending the loop.
C3_FailureAborts ==
    /\ ParserFailed =>
          /\ pc = "raised"
          /\ error \in ParserErrors
          /\ events[Len(events)] = [ev |-> "raise", i |-> idx, images |-> <<>>]
          /\ Len(EventsOf("raise")) = 1
          /\ \A i \in DOMAIN acquisitions : Called(i) <=> i <= idx
    /\ (Terminal /\ ~ParserFailed) => \A i \in DOMAIN acquisitions : Called(i)

C3_Witness ==
    /\ ParserFailed
    /\ idx < Len(acquisitions)
    /\ Len(EventsOf("return")) > 0

HoldsNoImageRecord(acq) == acq.readable /\ ImageRecords(acq.records) = <<>>
HoldsImageRecords(acq) == acq.readable /\ ImageRecords(acq.records) # <<>>

\* C4 as stated: an acquisition without tiles, also one whose metadata holds
\* no record at all, is never fatal: next to an acquisition with images the
\* batch succeeds, and the batch fails only when every acquisition is empty.
C4_Original_EmptyAcquisitionNeverFatal ==
    (Terminal /\ \A i \in DOMAIN acquisitions : acquisitions[i].readable) =>
        /\ (\E i \in DOMAIN acquisitions : HoldsImageRecords(acquisitions[i]))
               => pc = "done"
        /\ pc = "raised" =>
               \A i \in DOMAIN acquisitions : HoldsNoImageRecord(acquisitions[i])

\* C4 amended: an acquisition for which the parser returns an empty list is
\* logged and skipped, and the batch then fails only if every acquisition
\* returned an empty list; an acquisition whose metadata holds no record at
\* all makes the parser raise, and that error ends the batch.
C4_EmptyResultSkipped_NoRecordsFatal ==
    /\ \A k \in DOMAIN events :
          LET acq == acquisitions[events[k].i]
          IN  /\ events[k].ev = "return" => acq.readable /\ acq.records # <<>>
              /\ (events[k].ev = "raise" /\ acq.readable) =>
                     /\ acq.records = <<>>
                     /\ pc = "raised"
                     /\ error \in {NoRecordsError, NoImagesInFileError}
    /\ warnings = [k \in 1..Len(warnings) |->
                      SelectSeq(EventsOf("return"),
                                LAMBDA e : e.images = <<>>)[k].i]
    /\ Len(warnings) = Len(SelectSeq(EventsOf("return"),
                                     LAMBDA e : e.images = <<>>))
    /\ (Terminal /\ acquisitions # <<>> /\ ~ParserFailed) =>
          (pc = "done" <=> Len(warnings) < Len(acquisitions))

C4_Witness ==
    /\ pc = "done"
    /\ Len(warnings) > 0

C4_WitnessFatal ==
    /\ pc = "raised"
    /\ error = NoRecordsError
    /\ tiled_images # <<>>

\* C5: when no parser call fails, parse_function is invoked once per
\* acquisition, in list order, and each call has returned before the next one
\* starts: the events are call 1, return 1, call 2, return 2, ...
C5_SequentialOncePerAcquisition ==
    ~ParserFailed =>
        /\ \A k \in DOMAIN events :
              /\ events[k].i = (k + 1) \div 2
              /\ events[k].ev = IF k % 2 = 1 THEN "call" ELSE "return"
        /\ (Terminal /\ acquisitions # <<>>) => Len(events) = 2 * Len(acquisitions)

C5_Witness ==
    /\ pc = "done"
    /\ ~ParserFailed
    /\ Len(acquisitions) = 3

(***************************************************************************)
(* Properties of get_attributes_from_condition_table                       *)
(***************************************************************************)
CtDone == ct_pc = "done" /\ ~condition_table.is_none

HeaderPositions(name) ==
    {i \in DOMAIN condition_table.columns :
        SameLetters(condition_table.columns[i], name)}

HasHeader(name) == HeaderPositions(name) # {}

SetMin(S) == CHOOSE x \in S : \A y \in S : x <= y
SetMax(S) == CHOOSE x \in S : \A y \in S : x >= y

\* the positions of the key columns of the table
RowPos == SetMin(HeaderPositions(S_row))
ColumnPos ==
    IF HasHeader(S_column) THEN SetMin(HeaderPositions(S_column))
    ELSE SetMin(HeaderPositions(S_col))
AcquisitionPos == SetMin(HeaderPositions(S_acquisition))

HasKeyHeaders == HasHeader(S_row) /\ (HasHeader(S_column) \/ HasHeader(S_col))

\* the table rows a query selects, as a set of row numbers
SelectedRows(row, column, acquisition) ==
    {i \in DOMAIN condition_table.rows :
        LET r == condition_table.rows[i]
        IN  /\ r[RowPos] = StrCell(row)
            /\ r[ColumnPos] = IntCell(column)
            /\ HasHeader(S_acquisition) => r[AcquisitionPos] = IntCell(acquisition)}

\* the rows numbered by S, in table order
RowsAt(S) ==
    [k \in 1..Cardinality(S) |->
        condition_table.rows[CHOOSE i \in S : Cardinality({j \in S : j < i}) = k - 1]]

\* C6: the rows selected are those whose row and column cells equal the
\* queried row and column and, when the table has an acquisition header,
\* whose acquisition cell equals the queried id; without that header the
\* result is the same for every acquisition id; when nothing is selected the
\* result is the empty mapping and no error.
C6_RowSelection ==
    (CtDone /\ HasKeyHeaders) =>
        LET sel == SelectedRows(q_row, q_column, q_acquisition)
        IN  /\ ct_result.filtered = RowsAt(sel)
            /\ sel = {} => ct_result = CtReturn(<<>>, <<>>)
            /\ ~HasHeader(S_acquisition) =>
                   \A a \in AcquisitionIds \cup {7} :
                       get_attributes_from_condition_table(
                           condition_table, q_row, q_column, a) = ct_result

C6_Witness ==
    /\ CtDone
    /\ HasKeyHeaders
    /\ HasHeader(S_acquisition)
    /\ Len(condition_table.rows) = 2
    /\ Cardinality(SelectedRows(q_row, q_column, q_acquisition)) = 1
    /\ Cardinality(SelectedRows(q_row, q_column, 1 - q_acquisition)) = 1
    /\ Len(ct_result.filtered) = 1

C6_WitnessNoMatch ==
    /\ CtDone
    /\ HasKeyHeaders
    /\ condition_table.rows # <<>>
    /\ SelectedRows(q_row, q_column, q_acquisition) = {}
    /\ ct_result.attributes = <<>>

\* C7: the row and column headers are found whatever their letter case,
\* the cell values are compared by exact equality: a table row whose row
\* cell differs from the queried row, also in letter case only, is never
\* selected.
C7_HeadersAnyCaseValuesExact ==
    (CtDone /\ HasKeyHeaders) =>
        /\ ct_result.err \notin {RowMissingError, ColumnMissingError}
        /\ \A k \in DOMAIN ct_result.filtered :
               ct_result.filtered[k][RowPos].v = q_row
        /\ \A i \in DOMAIN condition_table.rows :
               condition_table.rows[i][RowPos].v # q_row =>
                   condition_table.rows[i] \notin Range(ct_result.filtered)
        /\ SelectedRows(q_row, q_column, q_acquisition) # {} =>
               ct_result.filtered # <<>>

C7_Witness ==
    /\ CtDone
    /\ condition_table.columns[1] \in {S_Row, S_ROW}
    /\ condition_table.columns[2] \in {S_Column, S_COL}
    /\ Len(condition_table.rows) = 2
    /\ q_row = <<"A">>
    /\ condition_table.rows[1][1] = StrCell(<<"a">>)
    /\ condition_table.rows[1][2] = IntCell(q_column)
    /\ condition_table.rows[2][1] = StrCell(<<"A">>)
    /\ condition_table.rows[2][2] = IntCell(q_column)
    /\ ct_result.filtered = <<condition_table.rows[2]>>

\* C8: whatever the query and the rows, a table without a 'row' header
\* raises the error about the 'row' column, a table with a 'row' header but
\* neither 'column' nor 'col' raises the error that names 'column'/'col',
\* headers compared without regard to case; with both key headers present
\* neither error is raised.
C8_MissingHeaderErrors ==
    CtDone =>
        /\ ~HasHeader(S_row) => ct_result.err = RowMissingError
        /\ (~HasHeader(S_column) /\ ~HasHeader(S_col)) =>
               /\ ct_result.err \in {RowMissingError, ColumnMissingError}
               /\ HasHeader(S_row) =>
                      /\ ct_result.err = ColumnMissingError
                      /\ ct_result.err_column = S_column
        /\ HasKeyHeaders =>
               ct_result.err \notin {RowMissingError, ColumnMissingError}
        /\ ct_result.err \in {RowMissingError, ColumnMissingError} =>
               ct_result.attributes = <<>>

C8_Witness ==
    /\ CtDone
    /\ HasHeader(S_row)
    /\ ct_result.err = ColumnMissingError
    /\ SelectSeq(condition_table.rows,
                 LAMBDA r : r[RowPos] = StrCell(q_row)) # <<>>

C8_WitnessNoRow ==
    /\ CtDone
    /\ HasHeader(S_column)
    /\ ct_result.err = RowMissingError
    /\ condition_table.rows # <<>>

C8_WitnessBothPresent ==
    /\ CtDone
    /\ S_ROW \in Range(condition_table.columns)
    /\ S_COL \in Range(condition_table.columns)
    /\ ct_result.err = NoError
    /\ ct_result.filtered # <<>>

\* C9: the returned mapping never holds the table's row, column or
\* acquisition column, whatever the case of their headers and whether the
\* column header is 'column' or 'col'.
C9_KeyColumnsExcluded ==
    (CtDone /\ HasKeyHeaders /\ ct_result.err = NoError) =>
        /\ condition_table.columns[RowPos] \notin DOMAIN ct_result.attributes
        /\ condition_table.columns[ColumnPos] \notin DOMAIN ct_result.attributes
        /\ HasHeader(S_acquisition) =>
               condition_table.columns[AcquisitionPos]
                   \notin DOMAIN ct_result.attributes

\* s without its leading and trailing whitespace
Trimmed(s) ==
    LET solid == {k \in DOMAIN s : s[k] \notin Whitespace}
    IN  IF solid = {} THEN <<>> ELSE SubSeq(s, SetMin(solid), SetMax(solid))

\* the cells of column `key` in the selected rows
SelectedCells(key) ==
    LET c == SetMin({i \in DOMAIN condition_table.columns :
                        condition_table.columns[i] = key})
    IN  [k \in DOMAIN ct_result.filtered |-> ct_result.filtered[k][c]]

\* C10: in a returned attribute whose selected cells are all strings or
\* null, each string is trimmed and then '', 'Na', 'NA', 'N/A' become null;
\* any other string is returned trimmed, and null stays null.
C10_StringsTrimmedPlaceholdersNull ==
    (CtDone /\ ct_result.err = NoError) =>
        \A key \in DOMAIN ct_result.attributes :
            LET raw == SelectedCells(key)
                out == ct_result.attributes[key]
            IN  (\A k \in DOMAIN raw : raw[k].t \in {"str", "NoneType"}) =>
                    /\ DOMAIN out = DOMAIN raw
                    /\ \A k \in DOMAIN raw :
                           out[k] =
                               IF raw[k].t = "NoneType" THEN None
                               ELSE IF Trimmed(raw[k].v) \in
                                       {<<>>, <<"N", "a">>, <<"N", "A">>,
                                        <<"N", "/", "A">>}
                               THEN None
                               ELSE StrCell(Trimmed(raw[k].v))

C10_Witness ==
    /\ CtDone
    /\ ct_result.err = NoError
    /\ S_drug \in DOMAIN ct_result.attributes
    /\ Len(ct_result.filtered) = 2
    /\ SelectedCells(S_drug) =
           <<StrCell(<<" ", "N", "A", " ">>), StrCell(<<" ", "x", "\t">>)>>
    /\ ct_result.attributes[S_drug] = <<None, StrCell(<<"x">>)>>

C10_WitnessOther ==
    /\ CtDone
    /\ ct_result.err = NoError
    /\ S_drug \in DOMAIN ct_result.attributes
    /\ SelectedCells(S_drug) = <<None, StrCell(<<"n", "a">>)>>
    /\ ct_result.attributes[S_drug] = <<None, StrCell(<<"n", "a">>)>>

\* the columns whose selected cells hold a string next to a number or a bool
MixedColumns ==
    {c \in DOMAIN condition_table.columns :
        LET cells == SelectedCells(condition_table.columns[c])
        IN  /\ \E k \in DOMAIN cells : cells[k].t = "str"
            /\ \E k \in DOMAIN cells : cells[k].t \in {"int", "float", "bool"}}

\* C11: an attribute column whose selected cells are all numeric, boolean
\* or null is returned unchanged; when a column mixes strings with numeric
\* or boolean cells the call raises an error that names the column and the
\* types found, and no mapping is returned.
C11_NumericUnchanged_MixedIsError ==
    (CtDone /\ HasKeyHeaders /\ ct_result.filtered # <<>>) =>
        IF MixedColumns # {}
        THEN LET c == SetMin(MixedColumns)
                 cells == SelectedCells(condition_table.columns[c])
             IN  /\ ct_result.err = MixedTypesError
                 /\ ct_result.err_column = condition_table.columns[c]
                 /\ ct_result.err_types = {cells[k].t : k \in DOMAIN cells}
                 /\ ct_result.attributes = <<>>
        ELSE /\ ct_result.err = NoError
             /\ \A key \in DOMAIN ct_result.attributes :
                    LET cells == SelectedCells(key)
                    IN  (\A k \in DOMAIN cells :
                            cells[k].t \in {"int", "float", "bool", "NoneType"})
                        => ct_result.attributes[key] = cells

C11_Witness ==
    /\ CtDone
    /\ Len(ct_result.filtered) = 2
    /\ ct_result.err = MixedTypesError
    /\ ct_result.err_column = S_mix
    /\ ct_result.err_types = {"str", "bool"}

C11_WitnessUnchanged ==
    /\ CtDone
    /\ ct_result.err = NoError
    /\ S_mix \in DOMAIN ct_result.attributes
    /\ ct_result.attributes[S_mix] = <<BoolCell(TRUE), None>>

BothColumnHeaders ==
    HasHeader(S_row) /\ HasHeader(S_column) /\ HasHeader(S_col)

\* the rows selected when position c holds the column key
SelectedRowsBy(c) ==
    {i \in DOMAIN condition_table.rows :
        LET r == condition_table.rows[i]
        IN  /\ r[RowPos] = StrCell(q_row)
            /\ r[c] = IntCell(q_column)
            /\ HasHeader(S_acquisition) =>
                   r[AcquisitionPos] = IntCell(q_acquisition)}

\* C19 as stated: with both a 'column' and a 'col' header the column key is
\* whichever of the two comes first in the declared column order.
C19_Original_FirstDeclaredWins ==
    (CtDone /\ BothColumnHeaders) =>
        ct_result.filtered =
            RowsAt(SelectedRowsBy(SetMin(HeaderPositions(S_column)
                                         \cup HeaderPositions(S_col))))

\* C19 amended: with both headers present the column key is the 'column'
\* header, wherever the two stand in the declared column order; 'col' is
\* the key only when no header equals 'column'.
C19_ColumnHeaderPreferred ==
    /\ (CtDone /\ BothColumnHeaders) =>
           ct_result.filtered =
               RowsAt(SelectedRowsBy(SetMin(HeaderPositions(S_column))))
    /\ (CtDone /\ HasHeader(S_row) /\ HasHeader(S_col) /\ ~HasHeader(S_column)) =>
           ct_result.filtered =
               RowsAt(SelectedRowsBy(SetMin(HeaderPositions(S_col))))

C19_Witness ==
    /\ CtDone
    /\ BothColumnHeaders
    /\ SetMin(HeaderPositions(S_col)) < SetMin(HeaderPositions(S_column))
    /\ Len(condition_table.rows) = 1
    /\ SelectedRowsBy(SetMin(HeaderPositions(S_col))) = {}
    /\ Len(ct_result.filtered) = 1

\* the raw path without its trailing slashes
Core == 
    LET k == SetMax({0} \cup {i \in DOMAIN p_raw : p_raw[i] # "/"})
    IN  SubSeq(p_raw, 1, k)

EndsIn(leaf) ==
    /\ Len(Core) >= Len(leaf) + 1
    /\ \A i \in 1..Len(leaf) : Core[Len(Core) - Len(leaf) + i] = leaf[i]
    /\ Core[Len(Core) - Len(leaf)] = "/"

VendorLeaf == IF p_vendor = "scanr" THEN S_data ELSE S_Images

\* C18: a ScanR path ending in '/data' and an Operetta path ending in
\* '/Images', with or without trailing slashes, are normalized to the parent
\* directory; any other path only loses its trailing slashes; the metadata
\* file is looked up under the normalized path, as <path>/data/metadata.ome.xml
\* and <path>/Images/Index.idx.xml.
C18_PathNormalization ==
    (p_pc \in {"validated", "located"} /\ p_vendor \in {"scanr", "operetta"}) =>
        /\ EndsIn(VendorLeaf) => p_path \o S_slash \o VendorLeaf = Core
        /\ ~EndsIn(VendorLeaf) => p_path = Core
        /\ p_pc = "located" =>
               /\ p_vendor = "scanr" =>
                      p_metadata = <<p_path \o S_slash \o S_data
                                         \o S_slash \o S_metadata_ome_xml>>
               /\ p_vendor = "operetta" =>
                      p_metadata = <<p_path \o S_slash \o S_Images
                                         \o S_slash \o S_Index_idx_xml>>

C18_Witness ==
    /\ p_pc = "located"
    /\ p_vendor = "scanr"
    /\ p_raw = <<"p">> \o S_slash \o S_data \o S_slash \o S_slash
    /\ p_path = <<"p">>

C18_WitnessOperetta ==
    /\ p_pc = "located"
    /\ p_vendor = "operetta"
    /\ p_raw = <<"p">> \o S_slash \o S_Images
    /\ p_path = <<"p">>

(***************************************************************************)
(* Properties of the vendor parsers                                        *)
(***************************************************************************)
Grouped == t_vendor \in {"cq3k", "operetta"} /\ t_gi >= 1

\* the image records of the loaded metadata, in file order
LoadedImages ==
    IF t_vendor = "cq3k"
    THEN SelectSeq(t_meta[1], LAMBDA r : r.type = "IMG")
    ELSE t_meta

\* the grouping key of a record, from its own fields
NativeKey(r) ==
    IF t_vendor = "cq3k"
    THEN <<r.row, r.column, r.field_index, r.z_image_processing>>
    ELSE <<r.row, r.column, r.field_id>>

FirstAt(key) ==
    SetMin({i \in DOMAIN LoadedImages : NativeKey(LoadedImages[i]) = key})

TilesSteps == SelectSeq(t_log, LAMBDA e : e.step = "tiles")

\* C20: the CQ3K and Operetta grouper partitions the image records by
\* (row, column, field of view[, z-processing tag]): every group holds
\* exactly the records of one key in their file order, no group is empty,
\* distinct groups have distinct keys, and the groups stand, and are
\* processed, in the order in which their keys first appear.
C20_GroupsPartitionRecords ==
    Grouped =>
        /\ \A g \in DOMAIN t_groups :
               LET images == t_groups[g].images
               IN  /\ images # <<>>
                   /\ images = SelectSeq(LoadedImages,
                          LAMBDA r : NativeKey(r) = NativeKey(images[1]))
                   /\ t_groups[g].key.column = images[1].column
                   /\ t_groups[g].key.row =
                          IF t_vendor = "cq3k"
                          THEN <<PyIndex(STANDARD_ROWS_NAMES, images[1].row - 1)>>
                          ELSE images[1].row
                   /\ t_vendor = "cq3k" =>
                          t_groups[g].key.z_type = images[1].z_image_processing
        /\ \A i \in DOMAIN LoadedImages :
               Cardinality({g \in DOMAIN t_groups :
                   \E k \in DOMAIN t_groups[g].images :
                       t_groups[g].images[k] = LoadedImages[i]}) = 1
        /\ \A g, h \in DOMAIN t_groups :
               g < h => FirstAt(NativeKey(t_groups[g].images[1]))
                            < FirstAt(NativeKey(t_groups[h].images[1]))
        /\ \A k \in DOMAIN TilesSteps : TilesSteps[k].g = k

C20_Witness ==
    /\ t_vendor = "cq3k"
    /\ t_pc = "done"
    /\ Len(t_groups) = 2
    /\ Len(t_groups[1].images) = 2
    /\ t_groups[1].key.z_type = "None"
    /\ t_groups[2].key = [t_groups[1].key EXCEPT !.z_type = "MIP"]
    /\ Len(TilesSteps) = 2

C20_WitnessOperetta ==
    /\ t_vendor = "operetta"
    /\ t_pc = "done"
    /\ Len(t_groups) = 2
    /\ Len(t_groups[1].images) = 2
    /\ t_groups[1].images[1].plane_id = 1
    /\ t_groups[1].images[2].plane_id = 2
    /\ LoadedImages[2].row = <<"B">>

\* the records of group g: its image records, for ScanR the planes of image g
GroupRecordsOf(g) ==
    IF t_vendor = "scanr" THEN t_groups[g].planes ELSE t_groups[g].images

\* the native z, channel and time indices of a record
NativeZ(r) ==
    CASE t_vendor = "cq3k" -> r.z_index
      [] t_vendor = "operetta" -> r.plane_id
      [] OTHER -> r.the_z

NativeT(r) ==
    CASE t_vendor = "cq3k" -> r.time_point
      [] t_vendor = "operetta" -> r.timepoint_id
      [] OTHER -> r.the_t

NativeC(r) ==
    CASE t_vendor = "cq3k" -> r.ch
      [] t_vendor = "operetta" -> r.channel_id
      [] OTHER -> r.the_c

\* the number of image records of the acquisition
RECURSIVE CountRecords(_)
CountRecords(g) == IF g = 0 THEN 0 ELSE Len(GroupRecordsOf(g)) + CountRecords(g - 1)

OneTilePerRecord(vendors) ==
    t_vendor \in vendors =>
        /\ \A k \in DOMAIN TilesSteps :
               LET tiles == TilesSteps[k].tiles
                   records == GroupRecordsOf(TilesSteps[k].g)
               IN  /\ Len(tiles) = Len(records)
                   /\ \A i \in DOMAIN tiles :
                          /\ NativeZ(records[i]) - tiles[i].start_z
                                 = NativeZ(records[1]) - tiles[1].start_z
                          /\ NativeT(records[i]) - tiles[i].start_t
                                 = NativeT(records[1]) - tiles[1].start_t
        /\ t_pc = "done" => Len(t_tiles) = CountRecords(Len(t_groups))

\* C12: for every vendor and every group the tile builder emits exactly one
\* Tile per image record of the group, in record order; the number of tiles
\* of an acquisition is the number of its image records (CQ3K: of its IMG
\* records; ScanR: of the planes of all its images).
C12_OneTilePerRecord == OneTilePerRecord(Vendors)

\* what holds of C12: the CQ3K and Operetta builders
C12_HoldsForCQ3KAndOperetta == OneTilePerRecord({"cq3k", "operetta"})

\* ScanR: one Tile per distinct (t, c, z) of the image's planes
C12_ScanRTilePerPlaneKey ==
    t_vendor = "scanr" =>
        \A k \in DOMAIN TilesSteps :
            Len(TilesSteps[k].tiles) =
                Cardinality({PlaneKey(p) : p \in Range(GroupRecordsOf(TilesSteps[k].g))})

\* the smallest native index of an axis is 1 where the vendor counts from 1
\* (CQ3K z, channel, time; Operetta plane and channel) and 0 elsewhere
CountsFrom(axis) ==
    CASE t_vendor = "cq3k" -> 1
      [] t_vendor = "operetta" -> IF axis = "t" THEN 0 ELSE 1
      [] OTHER -> 0

\* C13: every emitted Tile has start_z, start_c, start_t >= 0 and the
\* indices are zero-based: a record holding the smallest native index of its
\* vendor on an axis gets tile index 0 on that axis.
C13_TileIndicesZeroBased ==
    \A k \in DOMAIN TilesSteps :
        LET tiles == TilesSteps[k].tiles
            records == GroupRecordsOf(TilesSteps[k].g)
        IN  \A i \in DOMAIN tiles :
                /\ tiles[i].start_z >= 0
                /\ tiles[i].start_c >= 0
                /\ tiles[i].start_t >= 0
                /\ (t_vendor # "scanr" /\ NativeZ(records[i]) = CountsFrom("z"))
                       => tiles[i].start_z = 0
                /\ (t_vendor # "scanr" /\ NativeC(records[i]) = CountsFrom("c"))
                       => tiles[i].start_c = 0
                /\ (t_vendor # "scanr" /\ NativeT(records[i]) = CountsFrom("t"))
                       => tiles[i].start_t = 0
                /\ t_vendor = "scanr" =>
                       \E p \in Range(records) :
                           /\ tiles[i].start_z = p.the_z
                           /\ tiles[i].start_c = p.the_c
                           /\ tiles[i].start_t = p.the_t

\* what holds of C13: the z and time indices of all vendors, the channel
\* index of Operetta and ScanR
C13_HoldsExceptCQ3KChannel ==
    \A k \in DOMAIN TilesSteps :
        LET tiles == TilesSteps[k].tiles
            records == GroupRecordsOf(TilesSteps[k].g)
        IN  \A i \in DOMAIN tiles :
                /\ tiles[i].start_z >= 0
                /\ tiles[i].start_c >= 0
                /\ tiles[i].start_t >= 0
                /\ t_vendor # "scanr" =>
                       /\ tiles[i].start_z = NativeZ(records[i]) - CountsFrom("z")
                       /\ tiles[i].start_t = NativeT(records[i]) - CountsFrom("t")
                /\ t_vendor = "operetta" =>
                       tiles[i].start_c = NativeC(records[i]) - CountsFrom("c")
                /\ t_vendor = "cq3k" => tiles[i].start_c = NativeC(records[i])

\* u is the measure m in micrometres
IsMicrometres(u, m) ==
    CASE m.unit = "um" -> u = m.value
      [] m.unit = "nm" -> u * 1000 = m.value
      [] m.unit = "m"  -> u = m.value * 1000000
      [] OTHER -> FALSE

\* u is the raw stage x (y) of a record; ScanR: no position counts as 0
RawXIs(r, u) ==
    CASE t_vendor = "cq3k" -> u = r.x
      [] t_vendor = "operetta" -> IsMicrometres(u, r.pos_x)
      [] OTHER -> u = IF r.position_x = Nothing THEN 0 ELSE r.position_x[1]

RawYIs(r, u) ==
    CASE t_vendor = "cq3k" -> u = r.y
      [] t_vendor = "operetta" -> IsMicrometres(u, r.pos_y)
      [] OTHER -> u = IF r.position_y = Nothing THEN 0 ELSE r.position_y[1]

\* the record a tile was built from: the record at the tile's place in the
\* group; ScanR: the last plane with the tile's (t, c, z)
RecordOf(k, i) ==
    LET records == GroupRecordsOf(TilesSteps[k].g)
        tile == TilesSteps[k].tiles[i]
    IN  IF t_vendor # "scanr" THEN records[i]
        ELSE records[SetMax({j \in DOMAIN records :
                 PlaneKey(records[j])
                     = <<tile.start_t, tile.start_c, tile.start_z>>})]

\* C14: for all three vendors the start_y of a record's Tile is the negation
\* of the record's raw stage y (in micrometres for Operetta) and its start_x
\* is the raw stage x unchanged.
C14_YNegatedXUnchanged ==
    \A k \in DOMAIN TilesSteps :
        \A i \in DOMAIN TilesSteps[k].tiles :
            /\ RawXIs(RecordOf(k, i), TilesSteps[k].tiles[i].start_x)
            /\ RawYIs(RecordOf(k, i), 0 - TilesSteps[k].tiles[i].start_y)

C14_Witness ==
    /\ t_vendor = "cq3k"
    /\ \E k \in DOMAIN TilesSteps : \E i \in DOMAIN TilesSteps[k].tiles :
           /\ RecordOf(k, i).y = 20
           /\ RecordOf(k, i).x = 10
           /\ TilesSteps[k].tiles[i].start_y = -20
           /\ TilesSteps[k].tiles[i].start_x = 10

C14_WitnessOperetta ==
    /\ t_vendor = "operetta"
    /\ \E k \in DOMAIN TilesSteps : \E i \in DOMAIN TilesSteps[k].tiles :
           /\ RecordOf(k, i).pos_y = MeasureWithUnit("nm", 20000)
           /\ TilesSteps[k].tiles[i].start_y = -20

C14_WitnessScanR ==
    /\ t_vendor = "scanr"
    /\ \E k \in DOMAIN TilesSteps : \E i \in DOMAIN TilesSteps[k].tiles :
           /\ RecordOf(k, i).position_y = Some(-3)
           /\ TilesSteps[k].tiles[i].start_y = 3
           /\ TilesSteps[k].tiles[i].start_x = -4

\* the z stage position of a record, in micrometres for Operetta
RawZ(r) ==
    CASE t_vendor = "cq3k" -> r.z
      [] t_vendor = "operetta" ->
             CASE r.pos_z.unit = "nm" -> r.pos_z.value \div 1000
               [] r.pos_z.unit = "m" -> r.pos_z.value * 1000000
               [] OTHER -> r.pos_z.value
      [] OTHER -> r.position_z

DistinctZ(g) == {RawZ(r) : r \in Range(GroupRecordsOf(g))}

\* the user set no z-spacing: the descriptor holds the inferred one
ZInferred == "z_spacing" \notin t_acq.advanced.set

FracEq(a, b) == a.num * b.den = b.num * a.den
FracPositive(a) == a.num * a.den > 0

\* C15: the z-spacing resolved for a group (with no override by the user) is
\* a positive number, and it is exactly 1.0 when the group's records hold at
\* most one distinct z stage position.
C15_ZSpacingPositive_OneForSinglePlane ==
    ZInferred =>
        \A k \in DOMAIN TilesSteps :
            \A i \in DOMAIN TilesSteps[k].tiles :
                LET z_spacing == TilesSteps[k].tiles[i].acquisition_details.z_spacing
                IN  /\ FracPositive(z_spacing)
                    /\ Cardinality(DistinctZ(TilesSteps[k].g)) <= 1
                           => FracEq(z_spacing, Frac(1, 1))

\* what holds of C15: the CQ3K and Operetta groups
C15_HoldsForCQ3KAndOperetta ==
    t_vendor # "scanr" => C15_ZSpacingPositive_OneForSinglePlane

\* the successive differences of the sorted distinct z positions of group g
SortedZ(g) ==
    LET S == DistinctZ(g)
    IN  [i \in 1..Cardinality(S) |->
            CHOOSE z \in S : Cardinality({y \in S : y < z}) = i - 1]

NonUniform(g) ==
    LET z == SortedZ(g)
    IN  \E i \in 1..(Len(z) - 1) : z[i + 1] - z[i] # z[2] - z[1]

MeanOfDifferences(g) ==
    LET z == SortedZ(g) IN Frac(z[Len(z)] - z[1], Len(z) - 1)

WarnThenMean(vendors) ==
    t_vendor \in vendors =>
        /\ t_error # ZSpacingError
        /\ \A k \in DOMAIN TilesSteps :
               NonUniform(TilesSteps[k].g) =>
                   /\ ZWarning \in Range(t_warnings)
                   /\ ZInferred =>
                          \A i \in DOMAIN TilesSteps[k].tiles :
                              FracEq(TilesSteps[k].tiles[i].acquisition_details.z_spacing,
                                     MeanOfDifferences(TilesSteps[k].g))
        /\ Len(t_warnings) =
               Cardinality({k \in DOMAIN TilesSteps : NonUniform(TilesSteps[k].g)})

ScanRUneven(image) ==
    LET planes == SelectSeq(image.planes, LAMBDA p : p.the_t = 0 /\ p.the_c = 0)
    IN  \E i \in 1..(Len(planes) - 1) :
            planes[i + 1].position_z - planes[i].position_z
                # planes[2].position_z - planes[1].position_z

ScanRChecked == t_vendor = "scanr" /\ t_pc \in {"groups", "done", "raised"}

C16_WitnessScanR ==
    /\ t_vendor = "scanr"
    /\ t_pc = "raised"
    /\ t_error = ZSpacingError
    /\ Len(t_meta) = 2
    /\ ~ScanRUneven(t_meta[1])
    /\ ScanRUneven(t_meta[2])

\* the descriptor inferred from the records of group g, before the overrides
InferredDetails(g) ==
    CASE t_vendor = "cq3k" ->
             AcquisitionDetails(CQ3KDetail.horizontal_pixel_dimension,
                                cq3k_get_z_spacing(t_groups[g].images).value,
                                NoChannels,
                                cq3k_is_time_series(t_groups[g].images),
                                NoDataType)
      [] t_vendor = "operetta" ->
             AcquisitionDetails(to_um(t_groups[g].images[1].resolution_x),
                                operetta_get_z_spacing(t_groups[g].images).value,
                                _channel_names(t_groups[g].images),
                                operetta_is_time_series(t_groups[g].images),
                                _get_data_type(t_groups[g].images))
      [] OTHER ->
             AcquisitionDetails(OrElse(t_groups[g].physical_size_x, 1), t_mean_z,
                                _get_channel_names(t_groups[g]),
                                scanr_is_time_series(t_groups[g]),
                                NoDataType)

\* C17: in every vendor's build_acquisition_details the user's overrides
\* are applied last: the descriptor attached to the tiles of a group holds
\* the user's value in every field the user set and the inferred value in
\* every other field; no inferred value replaces an override.
C17_OverridesAppliedLast ==
    \A k \in DOMAIN TilesSteps :
        \A i \in DOMAIN TilesSteps[k].tiles :
            LET details == TilesSteps[k].tiles[i].acquisition_details
                base == InferredDetails(TilesSteps[k].g)
            IN  /\ DOMAIN details = DOMAIN base
                /\ \A f \in DOMAIN base :
                       details[f] = IF f \in t_acq.advanced.set
                                    THEN t_acq.advanced.values[f]
                                    ELSE base[f]

C17_Witness ==
    /\ t_vendor = "cq3k"
    /\ t_pc = "done"
    /\ t_acq.advanced = Overrides
    /\ Len(t_groups) = 1
    /\ InferredDetails(1).z_spacing = Frac(5, 2)
    /\ InferredDetails(1).pixelsize = 3
    /\ InferredDetails(1).time_axis
    /\ t_tiles[1].acquisition_details.z_spacing = Frac(9, 1)
    /\ t_tiles[1].acquisition_details.pixelsize = 7
    /\ t_tiles[1].acquisition_details.time_axis

C17_WitnessScanR ==
    /\ t_vendor = "scanr"
    /\ t_pc = "done"
    /\ t_acq.advanced = Overrides
    /\ t_mean_z = Frac(4, 2)
    /\ t_tiles[1].acquisition_details.z_spacing = Frac(9, 1)

(***************************************************************************)
(* Properties of get_attributes_from_condition_table, continued            *)
(***************************************************************************)
\* the position of the column declared as `key`
PositionOf(key) ==
    SetMin({i \in DOMAIN condition_table.columns : condition_table.columns[i] = key})

\* C29: every returned attribute value is a sequence with exactly one entry
\* per selected table row, in table row order (the k-th entry comes from the
\* k-th selected row); so it has length 1 when exactly one row is selected,
\* and all returned attributes have the same length.
C29_OneEntryPerSelectedRow ==
    (CtDone /\ HasKeyHeaders /\ ct_result.err = NoError) =>
        LET sel == RowsAt(SelectedRows(q_row, q_column, q_acquisition))
        IN  \A key \in DOMAIN ct_result.attributes :
                LET out == ct_result.attributes[key]
                IN  /\ DOMAIN out = 1..Len(sel)
                    /\ \A k \in DOMAIN out :
                           LET raw == sel[k][PositionOf(key)]
                           IN  \/ out[k] = raw
                               \/ /\ raw.t = "str"
                                  /\ out[k] \in {None, StrCell(Trimmed(raw.v))}
                    /\ \A other \in DOMAIN ct_result.attributes :
                           Len(ct_result.attributes[other]) = Len(out)

C29_Witness ==
    /\ CtDone
    /\ ct_result.err = NoError
    /\ Cardinality(SelectedRows(q_row, q_column, q_acquisition)) = 2
    /\ Len(condition_table.rows) = 2
    /\ S_dose \in DOMAIN ct_result.attributes
    /\ ct_result.attributes[S_dose] = <<IntCell(2), IntCell(1)>>

C29_WitnessOneRow ==
    /\ CtDone
    /\ ct_result.err = NoError
    /\ Cardinality(SelectedRows(q_row, q_column, q_acquisition)) = 1
    /\ Len(condition_table.rows) = 2
    /\ S_dose \in DOMAIN ct_result.attributes
    /\ Len(ct_result.attributes[S_dose]) = 1

(***************************************************************************)
(* Properties of the path validators, continued                            *)
(***************************************************************************)
Normalized == p_pc \in {"validated", "located"} /\ p_vendor \in {"scanr", "operetta"}

\* C30: normalization is idempotent for the ScanR and Operetta models:
\* normalizing the normalized path returns it unchanged, so a normalized
\* path ends neither in '/' nor in the vendor suffix.
C30_NormalizationIdempotent ==
    Normalized =>
        /\ validate_path(p_vendor, p_path) = p_path
        /\ p_path # <<>> => p_path[Len(p_path)] # "/"
        /\ ~endswith(p_path, S_slash \o VendorLeaf)

\* what holds of C30: a normalized path that ends neither in '/' nor in the
\* vendor suffix is left unchanged by a second normalization
C30_HoldsForPlainPaths ==
    Normalized =>
        \/ validate_path(p_vendor, p_path) = p_path
        \/ endswith(p_path, S_slash)
        \/ endswith(p_path, S_slash \o VendorLeaf)

(***************************************************************************)
(* Properties of the vendor parsers, continued                             *)
(***************************************************************************)
Timepoints(g) == {NativeT(r) : r \in Range(GroupRecordsOf(g))}

\* C23: the time-series flag of a group's descriptor is true if and only if
\* the group's records hold more than one distinct timepoint index; with
\* one timepoint the axes have no time axis.
C23_TimeSeriesIffSeveralTimepoints ==
    "time_axis" \notin t_acq.advanced.set =>
        \A k \in DOMAIN TilesSteps :
            \A i \in DOMAIN TilesSteps[k].tiles :
                TilesSteps[k].tiles[i].acquisition_details.time_axis
                    <=> Cardinality(Timepoints(TilesSteps[k].g)) > 1

C23_Witness ==
    /\ t_vendor = "cq3k"
    /\ t_pc = "done"
    /\ Len(t_groups) = 2
    /\ Len(t_groups[1].images) = 2
    /\ Timepoints(1) = {1}
    /\ ~t_tiles[1].acquisition_details.time_axis
    /\ Len(t_groups[2].images) = 1

C23_WitnessSeries ==
    /\ t_pc = "done"
    /\ \E k \in DOMAIN TilesSteps :
           /\ Cardinality(Timepoints(TilesSteps[k].g)) = 2
           /\ TilesSteps[k].tiles[1].acquisition_details.time_axis

MaxIntensity(g) == SetMax({r.max_intensity : r \in Range(t_groups[g].images)})

\* C24: the pixel data type inferred for an Operetta group follows the
\* largest max_intensity of the group's records: 8-bit unsigned up to 255,
\* 16-bit unsigned from 256 to 65535, 32-bit unsigned above 65535.
C24_DataTypeFromMaxIntensity ==
    (t_vendor = "operetta" /\ "data_type" \notin t_acq.advanced.set) =>
        \A k \in DOMAIN TilesSteps :
            \A i \in DOMAIN TilesSteps[k].tiles :
                LET m == MaxIntensity(TilesSteps[k].g)
                    data_type == TilesSteps[k].tiles[i].acquisition_details.data_type
                IN  /\ m <= 255 => data_type = "uint8"
                    /\ (256 <= m /\ m <= 65535) => data_type = "uint16"
                    /\ m > 65535 => data_type = "uint32"

C24_Witness ==
    /\ t_vendor = "operetta"
    /\ t_pc = "done"
    /\ Len(t_groups) = 1
    /\ Len(t_groups[1].images) = 2
    /\ t_groups[1].images[1].max_intensity = 255
    /\ t_groups[1].images[2].max_intensity = 256
    /\ t_tiles[1].acquisition_details.data_type = "uint16"

C24_WitnessBounds ==
    /\ t_vendor = "operetta"
    /\ t_pc = "done"
    /\ Len(t_groups) = 2
    /\ {r.max_intensity : r \in Range(t_groups[1].images)} = {255, 65536}
    /\ MaxIntensity(2) = 65535
    /\ t_tiles[1].acquisition_details.data_type = "uint32"
    /\ t_tiles[3].acquisition_details.data_type = "uint16"

C24_WitnessEightBit ==
    /\ t_vendor = "operetta"
    /\ t_pc = "done"
    /\ MaxIntensity(1) = 255
    /\ t_tiles[1].acquisition_details.data_type = "uint8"

ChannelIds(g) == {r.channel_id : r \in Range(t_groups[g].images)}

StartCIndexesChannels(k) ==
    \A i \in DOMAIN TilesSteps[k].tiles :
        LET tile == TilesSteps[k].tiles[i]
            channels == tile.acquisition_details.channels
        IN  /\ 0 <= tile.start_c
            /\ tile.start_c < Len(channels)
            /\ channels[tile.start_c + 1]
                   = t_groups[TilesSteps[k].g].images[i].channel_name

\* C28: for every Operetta group each tile's start_c is a valid index into
\* the channel list of the group's descriptor and the channel there carries
\* the channel name of the tile's record, also when the channel ids of the
\* group are not the contiguous range 1..n.
C28_StartCIndexesChannelList ==
    (t_vendor = "operetta" /\ "channels" \notin t_acq.advanced.set) =>
        \A k \in DOMAIN TilesSteps : StartCIndexesChannels(k)

\* what holds of C28: the groups whose channel ids are exactly 1..n
C28_HoldsForContiguousIds ==
    (t_vendor = "operetta" /\ "channels" \notin t_acq.advanced.set) =>
        \A k \in DOMAIN TilesSteps :
            ChannelIds(TilesSteps[k].g) = 1..Cardinality(ChannelIds(TilesSteps[k].g))
                => StartCIndexesChannels(k)


(***************************************************************************)
(* C25: planes and file blocks of a ScanR image                            *)
(***************************************************************************)
\* the planes of an image whose (t, c, z) no file block of the image carries
UnmatchedPlanes(image) ==
    {i \in DOMAIN image.planes :
        \A j \in DOMAIN image.tiff_data_blocks :
            TiffKey(image.tiff_data_blocks[j]) # PlaneKey(image.planes[i])}

\* the tile refers to the file of a block that carries the tile's (t, c, z)
TileOfBlock(tile, image) ==
    \E j \in DOMAIN image.tiff_data_blocks :
        /\ TiffKey(image.tiff_data_blocks[j])
               = <<tile.start_t, tile.start_c, tile.start_z>>
        /\ tile.file_path
               = t_acq.path \o S_slash \o S_data \o S_slash
                     \o image.tiff_data_blocks[j].file_name

\* the image at hand when the parse stopped is the one ScanR was matching
StoppedAtMatching ==
    /\ t_pc = "raised"
    /\ t_gi \in DOMAIN t_groups
    /\ Len(TilesSteps) = t_gi - 1
    /\ _extract_well_position_id(t_groups[t_gi].id, t_acq.layout).err = NoError

\* C25: in the ScanR loader every plane of a built image has a tile of its
\* (t, c, z), and every tile refers to the file of the block with the tile's
\* (t, c, z); an image with a plane that no block matches gets no tiles, and
\* the parse that reaches its matching step stops with the assertion error.
C25_PlaneMatchedToBlockOfSameKey ==
    t_vendor = "scanr" =>
        /\ \A k \in DOMAIN TilesSteps :
               LET image == t_groups[TilesSteps[k].g]
                   tiles == TilesSteps[k].tiles
               IN  /\ UnmatchedPlanes(image) = {}
                   /\ \A i \in DOMAIN tiles : TileOfBlock(tiles[i], image)
                   /\ \A p \in DOMAIN image.planes :
                          \E i \in DOMAIN tiles :
                              <<tiles[i].start_t, tiles[i].start_c, tiles[i].start_z>>
                                  = PlaneKey(image.planes[p])
        /\ (StoppedAtMatching /\ UnmatchedPlanes(t_groups[t_gi]) # {})
               => t_error = AssertionError
        /\ t_error = AssertionError
               => (StoppedAtMatching /\ UnmatchedPlanes(t_groups[t_gi]) # {})
        /\ t_pc = "done" =>
               \A g \in DOMAIN t_groups : UnmatchedPlanes(t_groups[g]) = {}

\* a plane without file block stopped the parse after an image was built
C25_Witness ==
    /\ t_vendor = "scanr"
    /\ t_error = AssertionError
    /\ t_gi = 2
    /\ Len(t_tiles) > 0

\* an image whose blocks are listed in another order than its planes is built
C25_WitnessMatched ==
    /\ t_vendor = "scanr"
    /\ \E k \in DOMAIN TilesSteps :
           LET image == t_groups[TilesSteps[k].g]
           IN  /\ Len(TilesSteps[k].tiles) = 3
               /\ TiffKey(image.tiff_data_blocks[1]) # PlaneKey(image.planes[1])


(***************************************************************************)
(* C26: the order of the steps of one parse                                *)
(***************************************************************************)
\* the steps taken so far, without the tiles they made
LogShape == [i \in DOMAIN t_log |-> <<t_log[i].step, t_log[i].g>>]

\* the steps of a complete parse of n groups
ExpectedShape(n) ==
    [i \in 1..(2 * n + 3) |->
        IF i = 1 THEN <<"load", 0>>
        ELSE IF i = 2 THEN <<"condition_table", 0>>
        ELSE IF i = 2 * n + 3 THEN <<"aggregate", 0>>
        ELSE IF i % 2 = 1 THEN <<"attributes", (i - 1) \div 2>>
        ELSE <<"tiles", (i - 2) \div 2>>]

\* C26: a CQ3K or Operetta parse takes its steps in one order: load, the
\* condition table once, then for group 1, 2, ... the attributes and after
\* them the tiles, then the aggregation once and last; a parse that raised
\* has not aggregated.
C26_StepsInFixedOrder ==
    t_vendor \in {"cq3k", "operetta"} =>
        LET n == Len(t_groups)
        IN  /\ Len(t_log) <= 2 * n + 3
            /\ \A i \in DOMAIN t_log : LogShape[i] = ExpectedShape(n)[i]
            /\ t_pc = "done" <=> Len(t_log) = 2 * n + 3
            /\ t_pc = "raised" =>
                   \A i \in DOMAIN t_log : t_log[i].step # "aggregate"
            /\ \A i \in DOMAIN t_log :
                   t_log[i].step = "aggregate" => t_pc = "done"

\* two groups were built and aggregated
C26_Witness ==
    /\ t_vendor \in {"cq3k", "operetta"}
    /\ t_pc = "done"
    /\ Len(t_groups) = 2
    /\ Len(t_log) = 7

\* tile building raised for the second group
C26_WitnessRaisedInTiles ==
    /\ t_vendor \in {"cq3k", "operetta"}
    /\ t_pc = "raised"
    /\ Len(t_log) = 5
    /\ t_log[5].step = "attributes"

\* attribute resolution raised for the first group
C26_WitnessRaisedInAttributes ==
    /\ t_vendor \in {"cq3k", "operetta"}
    /\ t_pc = "raised"
    /\ Len(t_groups) > 0
    /\ Len(t_log) = 2

\* loading raised
C26_WitnessRaisedInLoad ==
    /\ t_vendor \in {"cq3k", "operetta"}
    /\ t_pc = "raised"
    /\ t_log = <<>>


(***************************************************************************)
(* C22: what the tiles of one group share                                  *)
(***************************************************************************)
\* the well of the group or image a tiles step was taken for
WellOfStep(k) ==
    IF t_vendor = "scanr"
    THEN [row |-> TilesSteps[k].tiles[1].row,
          column |-> TilesSteps[k].tiles[1].column]
    ELSE [row |-> t_groups[TilesSteps[k].g].key.row,
          column |-> t_groups[TilesSteps[k].g].key.column]

\* C22: the tiles built for one group all carry the attributes the condition
\* table gives for the group's row, column and acquisition id, and one and
\* the same AcquisitionDetails.
C22_TilesShareAttributesAndDetails ==
    \A k \in DOMAIN TilesSteps :
        LET tiles == TilesSteps[k].tiles
        IN  \A i \in DOMAIN tiles :
                /\ tiles[i].row = WellOfStep(k).row
                /\ tiles[i].column = WellOfStep(k).column
                /\ tiles[i].attributes
                       = get_attributes_from_condition_table(
                             t_acq.table, WellOfStep(k).row, WellOfStep(k).column,
                             t_acq.acquisition_id).attributes
                /\ tiles[i].acquisition_details = tiles[1].acquisition_details

\* a group of several tiles with different channels in a well the table knows
C22_Witness ==
    \E k \in DOMAIN TilesSteps :
        LET tiles == TilesSteps[k].tiles
        IN  /\ Len(tiles) >= 2
            /\ tiles[1].start_c # tiles[2].start_c
            /\ tiles[1].attributes # <<>>


(***************************************************************************)
(* C21: a descriptor and the records of the other groups                   *)
(***************************************************************************)
\* the descriptor group g gets when the acquisition holds its records only
DetailsParsedAlone(g) ==
    CASE t_vendor = "cq3k" ->
             cq3k_build_acquisition_details(t_groups[g].images, CQ3KDetail, t_acq)
      [] t_vendor = "operetta" ->
             operetta_build_acquisition_details(t_groups[g].images,
                                                t_groups[g].images[1], t_acq)
      [] OTHER ->
             scanr_build_acquisition_details(t_groups[g], t_acq,
                 scanr_is_time_series(t_groups[g]),
                 _mean_z_spacing(<<t_groups[g]>>).value)

SameDetails(a, b) ==
    /\ a.pixelsize = b.pixelsize
    /\ FracEq(a.z_spacing, b.z_spacing)
    /\ a.t_spacing = b.t_spacing
    /\ a.channels = b.channels
    /\ a.time_axis = b.time_axis
    /\ a.data_type = b.data_type

DetailsOfOwnRecords(k) ==
    \A i \in DOMAIN TilesSteps[k].tiles :
        SameDetails(TilesSteps[k].tiles[i].acquisition_details,
                    DetailsParsedAlone(TilesSteps[k].g))

\* C21: for every vendor the descriptor attached to the tiles of a group is
\* the one the group gets when it is the only group of the acquisition: the
\* records of other wells and fields of view have no part in it.
C21_DescriptorFromOwnRecordsOnly ==
    \A k \in DOMAIN TilesSteps : DetailsOfOwnRecords(k)

\* C21 for the CQ3K and Operetta parsers, and for ScanR when the user sets
\* the z-spacing
C21_HoldsWithoutSharedMean ==
    (t_vendor \in {"cq3k", "operetta"} \/ "z_spacing" \in t_acq.advanced.set) =>
        \A k \in DOMAIN TilesSteps : DetailsOfOwnRecords(k)


(***************************************************************************)
(* C27: plate indices out of range                                         *)
(***************************************************************************)
\* the wells of the layout the acquisition is given, numbered from 1
WellIds == 1..(STANDARD_PLATES_LAYOUTS(t_acq.layout).rows
                   * STANDARD_PLATES_LAYOUTS(t_acq.layout).columns)

\* the row letter and the column of a well id of the layout, rows first
WellOfId(well) ==
    [row |-> <<STANDARD_ROWS_NAMES[
                   ((well - 1) \div STANDARD_PLATES_LAYOUTS(t_acq.layout).columns) + 1]>>,
     column |-> ((well - 1) % STANDARD_PLATES_LAYOUTS(t_acq.layout).columns) + 1]

\* the row numbers of the CQ3K image records that were grouped
CQ3KRowsGrouped ==
    IF t_vendor = "cq3k" /\ t_pc \notin {"start", "loaded"} /\ t_meta # Nothing
    THEN {LoadedImages[i].row : i \in DOMAIN LoadedImages}
    ELSE {}

\* the ScanR images whose tiles were built
ScanRBuilt ==
    IF t_vendor = "scanr" THEN {TilesSteps[k].g : k \in DOMAIN TilesSteps} ELSE {}

\* C27: no parser wraps an out-of-range plate index around: a CQ3K parse
\* with a record row outside 1..26 stops with an error at the grouping, and
\* no tiles are built for a ScanR image whose well id is outside
\* 1..rows*columns; inside the range the row letter is the one at that
\* position of A..Z, and distinct ScanR well ids give distinct wells.
C27_OutOfRangeIndexRejected ==
    /\ (\E row \in CQ3KRowsGrouped : row \notin 1..26)
           => (t_pc = "raised" /\ t_groups = <<>>)
    /\ t_vendor = "cq3k" =>
           \A g \in DOMAIN t_groups : \A i \in DOMAIN t_groups[g].images :
               /\ t_groups[g].images[i].row \in 1..26
               /\ t_groups[g].key.row
                      = <<STANDARD_ROWS_NAMES[t_groups[g].images[i].row]>>
    /\ \A g \in ScanRBuilt :
           /\ t_groups[g].id[1].well \in WellIds
           /\ \A k \in DOMAIN TilesSteps : \A i \in DOMAIN TilesSteps[k].tiles :
                  TilesSteps[k].g = g =>
                      /\ TilesSteps[k].tiles[i].row = WellOfId(t_groups[g].id[1].well).row
                      /\ TilesSteps[k].tiles[i].column
                             = WellOfId(t_groups[g].id[1].well).column
    /\ \A g, h \in ScanRBuilt :
           t_groups[g].id[1].well # t_groups[h].id[1].well
               => \A k, l \in DOMAIN TilesSteps :
                      (TilesSteps[k].g = g /\ TilesSteps[l].g = h) =>
                          \A i \in DOMAIN TilesSteps[k].tiles :
                              \A j \in DOMAIN TilesSteps[l].tiles :
                                  <<TilesSteps[k].tiles[i].row,
                                    TilesSteps[k].tiles[i].column>>
                                      # <<TilesSteps[l].tiles[j].row,
                                          TilesSteps[l].tiles[j].column>>

\* C27 for the indices inside the range: records of rows 1..26 and images of
\* the wells of the layout get the well of their index
C27_HoldsInsideRange ==
    ((\A row \in CQ3KRowsGrouped : row \in 1..26)
         /\ (t_vendor = "cq3k" => \A g \in DOMAIN t_groups :
                 \A i \in DOMAIN t_groups[g].images :
                     t_groups[g].images[i].row \in 1..26)
         /\ (\A g \in ScanRBuilt : t_groups[g].id[1].well \in WellIds))
        => C27_OutOfRangeIndexRejected

====
